---- MODULE Spec2Model ----
(***************************************************************************)
(* A model of the project dashboard's discovery and status engine:        *)
(* services/project_scanner.py (scan_projects and its classifiers),       *)
(* services/git_service.py (GitService) and utils/command_runner.py.      *)
(*                                                                         *)
(* Text is modelled as a tuple of one-character strings, so that the      *)
(* string operations of the code (lower, strip, split, startswith, the    *)
(* substring test, pathlib's suffix) are computed and not assumed.        *)
(***************************************************************************)
EXTENDS Integers, Sequences, FiniteSets, TLC

(***************************************************************************)
(* Bounds of the model.                                                    *)
(***************************************************************************)
\* Children of a scan root that admission control leaves alone.
MaxKids == 2
\* Children with contents of their own in a scan root near the ceiling.
MaxBigKids == 2
\* Lines of a porcelain status output.
MaxLines == 2
\* Half hours that a timestamp handed to get_relative_time lies back.
MaxHalfHours == 480
\* .env files found below the projects directory.
MaxEnvFiles == 2

(***************************************************************************)
(* Constants of the program.                                               *)
(***************************************************************************)
MAX_ITEMS == 50
MAX_SCAN_TIME == 15
MAX_DIR_TIME == 3
\* "if len(python_files) + len(relevant_files) > 100"
FILE_LIMIT == 100
\* "len(python_files) + len(relevant_files) < 20"
DEEP_LIMIT == 20
\* "if len(python_files) > 50"
PY_LIMIT == 50
\* subprocess.run(..., timeout=30)
COMMAND_TIMEOUT == 30
\* Seconds in a day (datetime.timedelta normalises to days and seconds).
DAY == 86400
\* The wall clock at the start of a scan, in seconds.
NOW == 8640000
\* The largest timestamp that datetime.fromtimestamp takes.
MAX_TIMESTAMP == 2000000000

(***************************************************************************)
(* The fixed classification tables.                                        *)
(***************************************************************************)
RELEVANT_EXTENSIONS ==
    {<<".","p","y">>, <<".","p","y","x">>, <<".","p","y","i">>, <<".","j","s">>,
     <<".","t","s">>, <<".","j","s","x">>, <<".","t","s","x">>, <<".","j","s","o","n">>,
     <<".","y","a","m","l">>, <<".","y","m","l">>, <<".","t","o","m","l">>, <<".","i","n","i">>,
     <<".","c","f","g">>, <<".","m","d">>, <<".","t","x","t">>, <<".","r","s","t">>,
     <<".","s","h">>, <<".","b","a","t">>, <<".","p","s","1">>, <<".","s","q","l">>,
     <<".","h","t","m","l">>, <<".","c","s","s">>, <<".","r","e","q","u","i","r","e","m","e","n","t","s">>, <<".","l","o","c","k">>}

IMPORTANT_FILES ==
    {<<"r","e","q","u","i","r","e","m","e","n","t","s",".","t","x","t">>,
     <<"p","y","p","r","o","j","e","c","t",".","t","o","m","l">>,
     <<"s","e","t","u","p",".","p","y">>,
     <<"s","e","t","u","p",".","c","f","g">>,
     <<"P","i","p","f","i","l","e">>,
     <<"P","i","p","f","i","l","e",".","l","o","c","k">>,
     <<"p","o","e","t","r","y",".","l","o","c","k">>,
     <<"D","o","c","k","e","r","f","i","l","e">>,
     <<"m","a","k","e","f","i","l","e">>,
     <<"M","a","k","e","f","i","l","e">>,
     <<"R","E","A","D","M","E">>,
     <<"L","I","C","E","N","S","E">>,
     <<"C","H","A","N","G","E","L","O","G">>}

SKIP_DIRS ==
    {<<"_","_","p","y","c","a","c","h","e","_","_">>, <<".","g","i","t">>,
     <<".","s","v","n">>, <<".","h","g">>,
     <<"n","o","d","e","_","m","o","d","u","l","e","s">>, <<".","p","y","t","e","s","t","_","c","a","c","h","e">>,
     <<".","m","y","p","y","_","c","a","c","h","e">>, <<".","t","o","x">>,
     <<"v","e","n","v">>, <<".","v","e","n","v">>,
     <<"e","n","v">>, <<".","e","n","v">>,
     <<"b","u","i","l","d">>, <<"d","i","s","t">>,
     <<".","e","g","g","s">>, <<"*",".","e","g","g","-","i","n","f","o">>,
     <<".","i","d","e","a">>, <<".","v","s","c","o","d","e">>,
     <<".","D","S","_","S","t","o","r","e">>, <<"l","o","g","s">>,
     <<"t","m","p">>, <<"t","e","m","p">>}

UpperChars == <<"A","B","C","D","E","F","G","H","I","J","K","L","M","N","O","P","Q","R","S","T","U","V","W","X","Y","Z">>
LowerChars == <<"a","b","c","d","e","f","g","h","i","j","k","l","m","n","o","p","q","r","s","t","u","v","w","x","y","z">>

(***************************************************************************)
(* Text.                                                                   *)
(***************************************************************************)
LowerChar(c) ==
    IF \E i \in 1..Len(UpperChars) : UpperChars[i] = c
    THEN LowerChars[CHOOSE i \in 1..Len(UpperChars) : UpperChars[i] = c]
    ELSE c

\* str.lower()
lower(s) == [i \in 1..Len(s) |-> LowerChar(s[i])]

\* str.startswith(p)
startswith(s, p) == Len(s) >= Len(p) /\ SubSeq(s, 1, Len(p)) = p

\* "p in s" on strings
contains(s, p) ==
    \E i \in 1..(Len(s) + 1) :
        i + Len(p) - 1 <= Len(s) /\ SubSeq(s, i, i + Len(p) - 1) = p

\* str.rfind("."), 1-based; 0 when there is none
rfindDot(s) ==
    IF \E i \in 1..Len(s) : s[i] = "."
    THEN CHOOSE i \in 1..Len(s) : s[i] = "." /\ \A j \in (i + 1)..Len(s) : s[j] # "."
    ELSE 0

\* pathlib's PurePath.suffix: the text from the last dot, unless that dot
\* opens or closes the name
SuffixFrom(name, i) ==
    IF 1 < i /\ i < Len(name) THEN SubSeq(name, i, Len(name)) ELSE <<>>

suffix(name) == SuffixFrom(name, rfindDot(name))

DotPy == <<".", "p", "y">>

Whitespace == {" ", "\n", "\t", "\r"}

RECURSIVE lstrip(_)
lstrip(s) ==
    IF s # <<>> /\ Head(s) \in Whitespace THEN lstrip(Tail(s)) ELSE s

RECURSIVE rstrip(_)
rstrip(s) ==
    IF s # <<>> /\ s[Len(s)] \in Whitespace
    THEN rstrip(SubSeq(s, 1, Len(s) - 1))
    ELSE s

\* str.strip()
strip(s) == rstrip(lstrip(s))

\* str.split("\n"): always at least one piece
RECURSIVE split(_)
split(s) ==
    IF \E i \in 1..Len(s) : s[i] = "\n"
    THEN LET i == CHOOSE k \in 1..Len(s) :
                      s[k] = "\n" /\ \A j \in 1..(k - 1) : s[j] # "\n"
         IN  <<SubSeq(s, 1, i - 1)>> \o split(SubSeq(s, i + 1, Len(s)))
    ELSE <<s>>

\* the least of a set of numbers
Min(S) == CHOOSE m \in S : \A n \in S : m <= n

RECURSIVE Max(_)
Max(S) ==
    LET x == CHOOSE y \in S : TRUE
    IN  IF S = {x} THEN x
        ELSE LET m == Max(S \ {x}) IN IF x > m THEN x ELSE m

(***************************************************************************)
(* The filesystem under the scan root.  A file is a name and a            *)
(* modification time; a directory also has its entries, in listing order. *)
(* A "broken" entry is one whose stat() raises (a dangling symbolic       *)
(* link): is_dir() and is_file() answer False for it.                     *)
(***************************************************************************)
Digits == <<"0", "1", "2", "3", "4", "5", "6", "7", "8", "9">>

File(name, mtime) ==
    [name |-> name, kind |-> "file", mtime |-> mtime, entries |-> <<>>,
     listFails |-> FALSE, activate |-> FALSE]

Dir(name, entries) ==
    [name |-> name, kind |-> "dir", mtime |-> NOW, entries |-> entries,
     listFails |-> FALSE, activate |-> FALSE]

Broken(name) ==
    [name |-> name, kind |-> "broken", mtime |-> NOW, entries |-> <<>>,
     listFails |-> FALSE, activate |-> FALSE]

\* A directory whose listing raises (no read permission).
Locked(name) == [Dir(name, <<>>) EXCEPT !.listFails = TRUE]

\* A virtual environment: venv/ with or without bin/activate below it.
Venv(activate) ==
    [Dir(<<"v","e","n","v">>, <<File(<<"x",".","p","y">>, NOW)>>)
        EXCEPT !.activate = activate]

GitDir == Dir(<<".","g","i","t">>, <<>>)

MainPy == File(<<"m","a","i","n",".","p","y">>, NOW - 90 * 60)
ReadmeMd == File(<<"R","E","A","D","M","E",".","m","d">>, NOW - 3 * DAY)
SetupCfg == File(<<"s","e","t","u","p",".","c","f","g">>, NOW - 10 * DAY)

\* The i-th of the configuration files of the "conf" tree.
ConfFile(i) ==
    File(<<"c", Digits[(i \div 10) + 1], Digits[(i % 10) + 1],
           ".", "c", "f", "g">>, NOW - 10 * DAY)

\* The i-th of the notes of the "big" tree.
NoteFile(i) ==
    File(<<"d", Digits[(i \div 100) + 1], Digits[((i \div 10) % 10) + 1],
           Digits[(i % 10) + 1], ".", "m", "d">>, NOW - DAY)

\* The facts of a git repository that the status queries report.
Repo(commits, remote, status) ==
    [commits |-> commits, remote |-> remote, status |-> status]

NoRepo == Repo(FALSE, FALSE, <<>>)

(***************************************************************************)
(* The children a scan root is populated from.  Each is a directory tree  *)
(* and, where it has a .git directory, the state of that repository.      *)
(***************************************************************************)
TemplateNames ==
    {"app", "lib", "docs", "build", "hidden", "run", "notes", "dead",
     "locked", "new", "caps", "conf", "big"}

\* The children used to populate a scan root near the admission ceiling,
\* and their ages in whole days: newer than, as old as, and older than the
\* plain files that fill the root.
BigTemplateNames == {"app", "run", "dead"}
Ages == {0, 1, 2}

\* a project with a repository and a working virtual environment
TreeApp ==
    Dir(<<"a","p","p">>, <<MainPy, ReadmeMd, GitDir, Venv(TRUE)>>)

\* a project whose only Python file is one level down
TreeLib ==
    Dir(<<"l","i","b">>,
        <<Dir(<<"s","r","c">>, <<File(<<"a",".","p","y">>, NOW - DAY)>>),
          File(<<"R","E","A","D","M","E">>, NOW)>>)

\* a directory without Python files
TreeDocs ==
    Dir(<<"d","o","c","s">>, <<ReadmeMd, SetupCfg>>)

\* a project whose name is in the skip-set
TreeBuild ==
    Dir(<<"b","u","i","l","d">>, <<MainPy>>)

\* a project whose name starts with a dot
TreeHidden ==
    Dir(<<".","h","i","d","d","e","n">>, <<MainPy>>)

\* a standalone Python file
TreeRun ==
    File(<<"r","u","n",".","p","y">>, NOW)

\* a standalone file of another kind
TreeNotes ==
    File(<<"n","o","t","e","s",".","t","x","t">>, NOW)

\* a dangling symbolic link
TreeDead ==
    Broken(<<"d","e","a","d">>)

\* a directory that cannot be listed
TreeLocked ==
    Locked(<<"l","o","c","k","e","d">>)

\* a project right after "git init", its venv without bin/activate
TreeNew ==
    Dir(<<"n","e","w">>, <<GitDir, MainPy, Venv(FALSE)>>)

\* a project whose only Python file is one level down, named in capitals
TreeCaps ==
    Dir(<<"c","a","p","s">>,
        <<Dir(<<"p","k","g">>, <<File(<<"A",".","P","Y">>, NOW)>>)>>)

\* DEEP_LIMIT relevant files, the only Python file one level down
TreeConf ==
    Dir(<<"c","o","n","f">>,
        [i \in 1..DEEP_LIMIT |-> ConfFile(i)]
            \o <<Dir(<<"s","r","c">>, <<File(<<"a",".","p","y">>, NOW)>>)>>)

\* more relevant files than FILE_LIMIT, listed before the only Python file
TreeBig ==
    Dir(<<"b","i","g">>,
        [i \in 1..(FILE_LIMIT + 1) |-> NoteFile(i)] \o <<MainPy>>)

\* what scan_projects seeds a missing root with (lines 204-207)
TreeSample ==
    Dir(<<"s","a","m","p","l","e","_","p","r","o","j","e","c","t">>,
        <<File(<<"m","a","i","n",".","p","y">>, NOW)>>)

Tree(t) ==
    CASE t = "app" -> TreeApp
      [] t = "lib" -> TreeLib
      [] t = "docs" -> TreeDocs
      [] t = "build" -> TreeBuild
      [] t = "hidden" -> TreeHidden
      [] t = "run" -> TreeRun
      [] t = "notes" -> TreeNotes
      [] t = "dead" -> TreeDead
      [] t = "locked" -> TreeLocked
      [] t = "new" -> TreeNew
      [] t = "caps" -> TreeCaps
      [] t = "conf" -> TreeConf
      [] t = "big" -> TreeBig
      [] t = "sample_project" -> TreeSample

RepoOf(t) ==
    CASE t = "app" -> Repo(TRUE, TRUE, <<>>)
      [] t = "new" -> Repo(FALSE, FALSE, <<<<"?", "?">>>>)
      [] OTHER -> NoRepo

\* The plain files that fill a scan root up to the ceiling.
Fillers ==
    [i \in 1..MAX_ITEMS |->
        File(<<"n", Digits[(i \div 10) + 1], Digits[(i % 10) + 1],
               ".", "t", "x", "t">>, NOW - DAY)]

(***************************************************************************)
(* The per-entry file classifier of scan_projects.  Time is counted in    *)
(* whole seconds; fetching one directory entry takes c seconds, so the    *)
(* k-th time check of a listing sees c * k seconds more than its start.   *)
(* python_files is kept as the tuple of the files' modification times.    *)
(***************************************************************************)
\* A slip: the name is compared as it is written.
SkippedAsWritten(name) == startswith(name, <<".">>) \/ name \in SKIP_DIRS

\* "item.name.startswith('.')" / "item.name.lower() in SKIP_DIRS"
Skipped(name) == startswith(name, <<".">>) \/ lower(name) \in SKIP_DIRS

\* The elif of the root-level pass: is a non-.py file a relevant file?
IsRelevant(name) ==
    \/ lower(suffix(name)) \in RELEVANT_EXTENSIONS
    \/ lower(name) \in IMPORTANT_FILES
    \/ \E imp \in IMPORTANT_FILES : contains(lower(name), imp)

\* "file_ext == '.py'" with file_ext = file_item.suffix.lower()
IsPythonAtRoot(name) == lower(suffix(name)) = DotPy

\* "sub_file.suffix == '.py'"
IsPythonInSubdir(name) == suffix(name) = DotPy

\* Lines 256-265: the two lists after the entry e has been looked at.
PythonAfter(e, py) ==
    IF e.kind = "file" /\ IsPythonAtRoot(e.name) THEN Append(py, e.mtime) ELSE py

RelevantAfter(e, rel) ==
    IF e.kind = "file" /\ ~IsPythonAtRoot(e.name) /\ IsRelevant(e.name)
    THEN rel + 1 ELSE rel

\* "if len(python_files) + len(relevant_files) > 100", inside "if is_file()"
FileLimitReached(e, py, rel) == e.kind = "file" /\ Len(py) + rel > FILE_LIMIT

\* The for loops below run over the positions lo..hi of a listing, st
\* being the values that the loop carries and st.brk whether it has hit a
\* break.  The range is halved, and st is looked at before the range is,
\* so that the evaluation stays shallow.

\* The values after the root-level pass has looked at entry e at time t.
RootLooked(e, py, rel, t) ==
    [py |-> py, rel |-> rel, t |-> t, brk |-> FileLimitReached(e, py, rel)]

\* Lines 252-270: one iteration of the root-level pass, on the k-th entry.
RootStep(entries, c, st, k) ==
    IF c * k > MAX_DIR_TIME
    THEN [st EXCEPT !.t = c * k, !.brk = TRUE]
    ELSE RootLooked(entries[k], PythonAfter(entries[k], st.py),
                    RelevantAfter(entries[k], st.rel), c * k)

RECURSIVE RootLoop(_, _, _, _, _)
RootLoop(entries, c, lo, hi, st) ==
    IF st.brk \/ lo > hi THEN st
    ELSE IF lo = hi THEN RootStep(entries, c, st, lo)
    ELSE RootLoop(entries, c, ((lo + hi) \div 2) + 1, hi,
                  RootLoop(entries, c, lo, (lo + hi) \div 2, st))

\* "for file_item in item.iterdir()": the first, root-level pass.
RootPass(entries, c) ==
    RootLoop(entries, c, 1, Len(entries),
             [py |-> <<>>, rel |-> 0, t |-> 0, brk |-> FALSE])

\* "python_files.append(sub_file)" and "if len(python_files) > 50: break"
SubAppended(py) == [py |-> py, brk |-> Len(py) > PY_LIMIT]

\* Lines 285-288: one iteration over the files of a subdirectory.
SubStep(files, st, j) ==
    IF files[j].kind = "file" /\ IsPythonInSubdir(files[j].name)
    THEN SubAppended(Append(st.py, files[j].mtime))
    ELSE st

RECURSIVE SubLoop(_, _, _, _)
SubLoop(files, lo, hi, st) ==
    IF st.brk \/ lo > hi THEN st
    ELSE IF lo = hi THEN SubStep(files, st, lo)
    ELSE SubLoop(files, ((lo + hi) \div 2) + 1, hi,
                 SubLoop(files, lo, (lo + hi) \div 2, st))

\* "for sub_file in subdir.iterdir()": python_files after one subdirectory.
SubPass(files, py) ==
    SubLoop(files, 1, Len(files), [py |-> py, brk |-> FALSE]).py

\* Lines 290-291: "if len(python_files) > 50: break" after a subdirectory.
AfterSubdir(st, t, py) ==
    [raised |-> FALSE, py |-> py, rel |-> st.rel, t |-> t,
     brk |-> Len(py) > PY_LIMIT]

\* Lines 277-291: one iteration of the pass one level deeper; raised: the
\* subdirectory could not be listed.
DeepStep(entries, c, st, k) ==
    IF st.t + c > MAX_DIR_TIME
    THEN [st EXCEPT !.t = st.t + c, !.brk = TRUE]
    ELSE IF entries[k].kind = "dir" /\ ~Skipped(entries[k].name)
    THEN IF entries[k].listFails
         THEN [st EXCEPT !.t = st.t + c, !.raised = TRUE, !.brk = TRUE]
         ELSE AfterSubdir(st, st.t + c + c * Len(entries[k].entries),
                          SubPass(entries[k].entries, st.py))
    ELSE [st EXCEPT !.t = st.t + c]

RECURSIVE DeepLoop(_, _, _, _, _)
DeepLoop(entries, c, lo, hi, st) ==
    IF st.brk \/ lo > hi THEN st
    ELSE IF lo = hi THEN DeepStep(entries, c, st, lo)
    ELSE DeepLoop(entries, c, ((lo + hi) \div 2) + 1, hi,
                  DeepLoop(entries, c, lo, (lo + hi) \div 2, st))

\* "for subdir in item.iterdir()": the pass one level deeper, which starts
\* t seconds into the directory.
DeepPass(entries, c, t, py, rel) ==
    DeepLoop(entries, c, 1, Len(entries),
             [raised |-> FALSE, py |-> py, rel |-> rel, t |-> t, brk |-> FALSE])

\* A slip: the comparison with the time left is turned around.
DeeperAllowedLate(t, py, rel) ==
    2 * t > MAX_DIR_TIME /\ Len(py) + rel < DEEP_LIMIT

\* "MAX_DIR_TIME/2" is 1.5 seconds: elapsed < 1.5 iff 2 * elapsed < 3.
DeeperAllowed(t, py, rel) ==
    2 * t < MAX_DIR_TIME /\ Len(py) + rel < DEEP_LIMIT

\* Lines 272-291: after the root-level pass left r, the pass one level
\* deeper if it is allowed.
AfterRootPass(item, c, r) ==
    IF DeeperAllowed(r.t, r.py, r.rel)
    THEN DeepPass(item.entries, c, r.t, r.py, r.rel)
    ELSE [raised |-> FALSE, py |-> r.py, rel |-> r.rel, t |-> r.t, brk |-> r.brk]

\* The whole try block of lines 245-295 for one directory item.
Classify(item, c) ==
    IF item.listFails
    THEN [raised |-> TRUE, py |-> <<>>, rel |-> 0, t |-> c, brk |-> TRUE]
    ELSE AfterRootPass(item, c, RootPass(item.entries, c))

(***************************************************************************)
(* utils/command_runner.py.  how says what became of the subprocess:      *)
(* "exit0", "exit1" (any non-zero exit code), "timeout" (30 seconds       *)
(* passed) or "error" (it could not be started).  A dict is a record; the *)
(* dicts of the two except branches have no 'stdout' key.                 *)
(***************************************************************************)
Hows == {"exit0", "exit1", "timeout", "error"}

TimedOutText ==
    <<"C","o","m","m","a","n","d"," ","t","i","m","e","d"," ","o","u","t">>
ErrorText == <<"e","r","r","o","r">>

run_command(how, stdout, stderr) ==
    CASE how = "exit0" ->
           [success |-> TRUE, stdout |-> strip(stdout),
            stderr |-> strip(stderr), returncode |-> 0]
      [] how = "exit1" ->
           [success |-> FALSE, stdout |-> strip(stdout),
            stderr |-> strip(stderr), returncode |-> 1]
      [] how = "timeout" ->
           [success |-> FALSE, stderr |-> TimedOutText, returncode |-> -1]
      [] OTHER ->
           [success |-> FALSE, stderr |-> ErrorText, returncode |-> -1]

(***************************************************************************)
(* What git prints for a repository.  A status entry is the pair of the   *)
(* two porcelain columns <<X, Y>>; the i-th entry is about the path fi.   *)
(***************************************************************************)
StatusLine(xy, i) == <<xy[1], xy[2], " ", "f", Digits[i + 1], "\n">>

RECURSIVE PorcelainText(_, _)
PorcelainText(status, i) ==
    IF i > Len(status) THEN <<>>
    ELSE StatusLine(status[i], i) \o PorcelainText(status, i + 1)

BranchText == <<"m", "a", "i", "n", "\n">>
RemoteText == <<"o", "r", "i", "g", "i", "n", "\n">>
LogText == <<"a", "b", "c", " ", "m", "s", "g">>

\* A git query on repo; ran is FALSE when the command timed out or could
\* not be started, failure then saying which.
GitStatusPorcelain(repo, ran, failure) ==
    IF ran THEN run_command("exit0", PorcelainText(repo.status, 1), <<>>)
    ELSE run_command(failure, <<>>, <<>>)

GitBranch(repo, ran, failure) ==
    IF ran THEN run_command("exit0", BranchText, <<>>)
    ELSE run_command(failure, <<>>, <<>>)

GitRemote(repo, ran, failure) ==
    IF ran THEN run_command("exit0", IF repo.remote THEN RemoteText ELSE <<>>, <<>>)
    ELSE run_command(failure, <<>>, <<>>)

NoCommitsText ==
    <<"f","a","t","a","l",":"," ","n","o"," ","c","o","m","m","i","t","s"," ","y","e","t","\n">>

\* "git log -1" exits non-zero in a repository without commits.
GitLog(repo, ran, failure) ==
    IF ran
    THEN IF repo.commits THEN run_command("exit0", LogText, <<>>)
         ELSE run_command("exit1", <<>>, NoCommitsText)
    ELSE run_command(failure, <<>>, <<>>)

(***************************************************************************)
(* services/project_scanner.py: the status detectors.                     *)
(***************************************************************************)
\* bool(s) of a string
Truthy(s) == s # <<>>

HasEntry(item, name) == \E i \in 1..Len(item.entries) : item.entries[i].name = name

EntryNamed(item, name) ==
    item.entries[CHOOSE i \in 1..Len(item.entries) : item.entries[i].name = name]

ProjectsDir == <<"/", "p">>
PathOf(item) == ProjectsDir \o <<"/">> \o item.name
VenvPathOf(item) == PathOf(item) \o <<"/", "v", "e", "n", "v">>

\* A slip: bin/activate is not looked for.
check_venv_status_dir_only(item, virtual) ==
    LET venvName == <<"v", "e", "n", "v">>
        exists == HasEntry(item, venvName)
        active == exists /\ Truthy(virtual) /\ contains(virtual, VenvPathOf(item))
    IN  [exists |-> exists, active |-> active, path |-> VenvPathOf(item)]

\* check_venv_status; virtual is os.environ.get('VIRTUAL_ENV'), <<>> if unset
check_venv_status(item, virtual) ==
    LET venvName == <<"v", "e", "n", "v">>
        exists == HasEntry(item, venvName) /\ EntryNamed(item, venvName).activate
        active == exists /\ Truthy(virtual) /\ contains(virtual, VenvPathOf(item))
    IN  [exists |-> exists, active |-> active, path |-> VenvPathOf(item)]

\* d[key] of a dict raises KeyError when d has no such key.
HasKey(d, key) == key \in DOMAIN d

KeyError == [raised |-> "KeyError"]

\* A slip: the exit code of the status query is not looked at.
ChangesOfAnyExit(status_result) ==
    HasKey(status_result, "stdout") /\ Truthy(status_result.stdout)

\* Line 81: "bool(status_result['stdout']) if status_result['success'] else False"
ChangesOf(status_result) ==
    IF status_result.success THEN Truthy(status_result.stdout) ELSE FALSE

\* A result whose 'stdout' is read (it is read of a successful query only)
\* and is not there.
ReadsMissing(result) == result.success /\ ~HasKey(result, "stdout")

\* Lines 77-97: the fields, from the results of the four queries.
GitFields(branch_result, status_result, remote_result, log_result) ==
    IF \/ ReadsMissing(branch_result)
       \/ ReadsMissing(status_result)
       \/ ReadsMissing(remote_result)
       \/ ReadsMissing(log_result)
    THEN KeyError
    ELSE [hasGit |-> TRUE,
          branch |-> IF branch_result.success THEN branch_result.stdout
                     ELSE <<"m", "a", "i", "n">>,
          hasChanges |-> ChangesOf(status_result),
          hasRemote |-> IF remote_result.success
                        THEN Truthy(remote_result.stdout) ELSE FALSE,
          lastCommit |-> IF log_result.success THEN log_result.stdout
                         ELSE <<>>]

\* get_git_status; ran[q] says whether query q ran to an exit code
get_git_status(item, repo, ran, failure) ==
    IF ~HasEntry(item, <<".", "g", "i", "t">>)
    THEN [hasGit |-> FALSE]
    ELSE GitFields(GitBranch(repo, ran.branch, failure),
                   GitStatusPorcelain(repo, ran.status, failure),
                   GitRemote(repo, ran.remote, failure),
                   GitLog(repo, ran.log, failure))

(***************************************************************************)
(* utils/time_utils.py: get_relative_time.  diff is now - timestamp in    *)
(* seconds; a timedelta holds it as whole days (floor) and the seconds    *)
(* left over, which are never negative.  The label is the number and the  *)
(* words around it; "date" stands for strftime("%b %d") of the day.       *)
(* datetime.fromtimestamp raises for a timestamp beyond the last year a   *)
(* datetime holds; MAX_TIMESTAMP stands for the last second of that year. *)
(***************************************************************************)
\* What is left of the label when the days are known to be at most 7.
WithinAWeek(days, seconds) ==
    IF days > 0
    THEN [n |-> days, text |-> IF days # 1 THEN "days ago" ELSE "day ago"]
    ELSE IF seconds > 3600
    THEN [n |-> seconds \div 3600,
          text |-> IF seconds \div 3600 # 1 THEN "hours ago" ELSE "hour ago"]
    ELSE IF seconds > 60
    THEN [n |-> seconds \div 60,
          text |-> IF seconds \div 60 # 1 THEN "minutes ago" ELSE "minute ago"]
    ELSE [n |-> 0, text |-> "Just now"]

\* "except Exception": the label of a timestamp that cannot be formatted.
Unknown == [n |-> 0, text |-> "Unknown"]

\* A slip: a timestamp of a week ago is a date already.
get_relative_time_week(timestamp, now) ==
    LET diff == now - timestamp
        days == IF diff >= 0 THEN diff \div DAY ELSE -(((-diff) + DAY - 1) \div DAY)
        seconds == diff - days * DAY
    IN  IF timestamp > MAX_TIMESTAMP THEN Unknown
        ELSE IF days >= 7 THEN [n |-> timestamp \div DAY, text |-> "date"]
        ELSE WithinAWeek(days, seconds)

get_relative_time(timestamp, now) ==
    LET diff == now - timestamp
        days == IF diff >= 0 THEN diff \div DAY ELSE -(((-diff) + DAY - 1) \div DAY)
        seconds == diff - days * DAY
    IN  IF timestamp > MAX_TIMESTAMP THEN Unknown
        ELSE IF days > 7 THEN [n |-> timestamp \div DAY, text |-> "date"]
        ELSE WithinAWeek(days, seconds)

(***************************************************************************)
(* analyze_project_fast.  fails: a stat() of the directory or of one of   *)
(* its Python files raises while the record is assembled; the except      *)
(* clause then returns None.                                               *)
(***************************************************************************)
None == [type |-> "None"]

AllRan == [branch |-> TRUE, status |-> TRUE, remote |-> TRUE, log |-> TRUE]
NoneRan == [branch |-> FALSE, status |-> FALSE, remote |-> FALSE, log |-> FALSE]

\* Lines 124-128: the newest of the Python files found.
LastModified(item, python_files) ==
    IF python_files # <<>>
    THEN Max({python_files[i] : i \in 1..Len(python_files)})
    ELSE item.mtime

\* Lines 130-140: the dictionary that the try block returns.
ProjectRecord(item, repo, python_files, relevant_files, virtual, ran, now) ==
    [name |-> item.name,
     path |-> PathOf(item),
     type |-> "folder",
     venv |-> check_venv_status(item, virtual),
     git |-> get_git_status(item, repo, ran, "timeout"),
     lastModified |-> get_relative_time(LastModified(item, python_files), now),
     pythonFiles |-> Len(python_files),
     relevantFiles |-> relevant_files,
     favorite |-> FALSE]

\* A slip in the except clause: it hands back what was gathered before the
\* failure instead of None.
analyze_project_partial(item, repo, python_files, relevant_files, virtual, ran, now, fails) ==
    IF fails
    THEN [name |-> item.name, path |-> PathOf(item), type |-> "folder"]
    ELSE ProjectRecord(item, repo, python_files, relevant_files, virtual, ran, now)

analyze_project_fast(item, repo, python_files, relevant_files, virtual, ran, now, fails) ==
    IF fails THEN None
    ELSE ProjectRecord(item, repo, python_files, relevant_files, virtual, ran, now)

\* The record of a standalone .py file (lines 311-320; its size is left out).
FileRecord(item, now) ==
    [name |-> item.name,
     path |-> PathOf(item),
     type |-> "file",
     venv |-> [exists |-> FALSE, active |-> FALSE],
     git |-> [hasGit |-> FALSE],
     lastModified |-> get_relative_time(item.mtime, now),
     favorite |-> FALSE]

(***************************************************************************)
(* The state.  The scan root, its environment, and one call of            *)
(* scan_projects in progress.                                              *)
(***************************************************************************)
VARIABLES
    rootState,    \* "present", "missing", "uncreatable" or "unlistable"
    kids,         \* the children with contents: <<[t: template, age: days]>>
    filler,       \* how many plain files fill the root besides
    fillerFirst,  \* whether the listing yields the plain files first
    fetchCost,    \* seconds it takes to fetch one directory entry
    cmdTime,      \* seconds one git query takes (30: it times out)
    virtualEnv,   \* os.environ.get('VIRTUAL_ENV'), <<>> when unset
    pc,           \* "start", "loop", "done" (returned) or "raised"
    items,        \* the candidates, as indices of children
    idx,          \* position of the for loop in items
    processed,    \* the counter of the same name
    elapsed,      \* seconds since start_scan_time
    projects,     \* the list of the same name
    returned,     \* what the call returned, once pc = "done"
    log           \* history: one entry per iteration of the for loop

scanVars ==
    <<rootState, kids, filler, fillerFirst, fetchCost, cmdTime, virtualEnv,
      pc, items, idx, processed, elapsed, projects, returned, log>>

(***************************************************************************)
(* A repository that the operations of GitService work on, and the last   *)
(* operation made on it.                                                   *)
(***************************************************************************)
VARIABLES
    gitStatus,      \* the porcelain status of the repository: <<X, Y>> per path
    gitConfigured,  \* user.email and user.name are set in the repository
    gitOp,          \* the operation made last: "none", "add_files", ...
    gitBefore,      \* history: gitStatus when that operation started
    gitChecked,     \* history: that operation got to read the status
    has_unstaged,   \* the local of add_files, FALSE while it is not assigned
    staged_changes, \* the local of commit_changes, likewise
    gitResult       \* the dict that the operation returned

gitVars ==
    <<gitStatus, gitConfigured, gitOp, gitBefore, gitChecked, has_unstaged,
      staged_changes, gitResult>>

(***************************************************************************)
(* A second call of scan_projects on the tree that the first one left,    *)
(* and the last call made of one of the functions that keep no state.     *)
(***************************************************************************)
VARIABLES
    scanNo,   \* 1 during the first call of scan_projects, 2 during the next
    first,    \* history: what the first call returned, and how it went
    utilOp,   \* the function called last: "none", "check_venv_status", ...
    utilIn,   \* history: the arguments of that call
    utilOut   \* what that call returned

againVars == <<scanNo, first>>

utilVars == <<utilOp, utilIn, utilOut>>

(***************************************************************************)
(* The snapshot file, the DEFAULT_DATA of utils/data_manager.py, which is *)
(* one object for the life of the process, and the two routes of dash.py  *)
(* that write the snapshot.                                                *)
(***************************************************************************)
VARIABLES
    dataFile,      \* the snapshot file: [kind, doc, elements]
    defaults,      \* what DEFAULT_DATA holds now
    held,          \* the document that load_data handed out last, and the
                   \* keys under which it holds the very lists of DEFAULT_DATA
    dataOp,        \* the operation made last: "none", "load_data", ...
    fileBefore,    \* history: the snapshot file when save_data was called
    saveReturned,  \* what save_data returned: "none", "True" or "False"
    scanPc,        \* the scan-projects request: "idle", "loaded" or "done"
    scanData,      \* the local data of that request
    posted         \* history: what a save-data request stored, and when

dataVars == <<dataFile, defaults, held, dataOp, fileBefore, saveReturned>>

routeVars == <<scanPc, scanData, posted>>

storeVars == <<dataVars, routeVars>>

vars == <<scanVars, gitVars, againVars, utilVars, storeVars>>

FetchCosts == {0, 1, 4}
CommandTimes == {0, 5, COMMAND_TIMEOUT}
VirtualEnvs ==
    {<<>>, <<"/", "p", "/", "a", "p", "p", "/", "v", "e", "n", "v">>}

\* The i-th child of the root: first the kids, then the plain files.
NumChildren == Len(kids) + filler

Child(i) ==
    IF i <= Len(kids)
    THEN [Tree(kids[i].t) EXCEPT !.mtime = NOW - kids[i].age * DAY]
    ELSE Fillers[i - Len(kids)]

RepoOfChild(i) == IF i <= Len(kids) THEN RepoOf(kids[i].t) ELSE NoRepo

\* list(projects_path.iterdir())
Listing ==
    IF fillerFirst
    THEN [i \in 1..filler |-> Len(kids) + i] \o [i \in 1..Len(kids) |-> i]
    ELSE [i \in 1..NumChildren |-> i]

\* x.stat() raises for some listed child
StatRaises(listing) ==
    \E i \in 1..Len(listing) : Child(listing[i]).kind = "broken"

\* items.sort(key=lambda x: x.stat().st_mtime, reverse=True): a stable sort
RECURSIVE SortByMtime(_, _)
SortByMtime(listing, mtimes) ==
    IF mtimes = {} THEN <<>>
    ELSE LET m == Max(mtimes)
             MtimeIsMax(i) == Child(i).mtime = m
         IN  SelectSeq(listing, MtimeIsMax) \o SortByMtime(listing, mtimes \ {m})

\* lines 219-223
Admit(listing) ==
    IF Len(listing) > MAX_ITEMS
    THEN SubSeq(SortByMtime(listing,
                            {Child(listing[i]).mtime : i \in 1..Len(listing)}),
                1, MAX_ITEMS)
    ELSE listing

\* A slip: the time check is left out.
TimedOutNever(e) == FALSE

\* A slip: the budget is read as minutes.
TimedOutMinutes(e) == e > 60 * MAX_SCAN_TIME

\* "(datetime.now() - start_scan_time).total_seconds() > MAX_SCAN_TIME"
TimedOut(e) == e > MAX_SCAN_TIME

\* A slip: the check for Python files is left out.
IsPythonProjectAlways(python_files) == TRUE

\* "if python_files:"
IsPythonProject(python_files) == python_files # <<>>

\* "if project:"
IsRecord(project) == project # None

\* Seconds the four git queries of get_git_status take for item.
GitTime(item, cmd) ==
    IF HasEntry(item, <<".", "g", "i", "t">>) THEN 4 * cmd ELSE 0

\* Which of the queries run to an exit code: none when they time out.
RanIn(cmd) == IF cmd >= COMMAND_TIMEOUT THEN NoneRan ELSE AllRan

\* Lines 302-304: the record is appended unless it is None.
Assembled(project, took) ==
    IF IsRecord(project)
    THEN [outcome |-> "record", record |-> project, took |-> took]
    ELSE [outcome |-> "dropped", record |-> None, took |-> took]

\* Lines 293-306 for a directory whose classification gave f.
ProcessDir(item, repo, f, cmd, virtual, e, fails) ==
    IF f.raised
    THEN [outcome |-> "raised", record |-> None, took |-> f.t]
    ELSE IF ~IsPythonProject(f.py)
    THEN [outcome |-> "nopy", record |-> None, took |-> f.t]
    ELSE Assembled(analyze_project_fast(item, repo, f.py, f.rel, virtual,
                                        RanIn(cmd), NOW + e + f.t, fails),
                   f.t + GitTime(item, cmd))

\* One iteration of the for loop, lines 232-327, for item at elapsed time e:
\* what came of it, the record if any, and the seconds it took.
ProcessOne(item, repo, c, cmd, virtual, e, fails) ==
    IF item.kind = "dir" /\ ~Skipped(item.name)
    THEN ProcessDir(item, repo, Classify(item, c), cmd, virtual, e, fails)
    ELSE IF item.kind = "file" /\ suffix(item.name) = DotPy
    THEN IF fails
         THEN [outcome |-> "fileerror", record |-> None, took |-> 0]
         ELSE [outcome |-> "record", record |-> FileRecord(item, NOW + e),
               took |-> 0]
    ELSE [outcome |-> "ignored", record |-> None, took |-> 0]

(***************************************************************************)
(* Initial states: a scan root of a few children with the environment     *)
(* slow or fast, or a scan root filled to the admission ceiling.          *)
(***************************************************************************)
Injective(s) == \A i, j \in DOMAIN s : i # j => s[i].t # s[j].t

KidSeqs(names, ages, n) ==
    {s \in [1..n -> [t : names, age : ages]] : Injective(s)}

NotStarted ==
    /\ pc = "start"
    /\ items = <<>>
    /\ idx = 1
    /\ processed = 0
    /\ elapsed = 0
    /\ projects = <<>>
    /\ returned = <<>>
    /\ log = <<>>

InitSmall ==
    /\ rootState \in {"present", "missing", "uncreatable", "unlistable"}
    /\ kids \in UNION {KidSeqs(TemplateNames, {0}, n) : n \in 0..MaxKids}
    /\ rootState # "present" => kids = <<>>
    /\ filler = 0
    /\ fillerFirst = FALSE
    /\ fetchCost \in FetchCosts
    /\ cmdTime \in CommandTimes
    /\ virtualEnv \in VirtualEnvs
    /\ fetchCost # 0 => cmdTime = 0
    /\ virtualEnv # <<>> => (fetchCost = 0 /\ cmdTime = 0)
    /\ NotStarted

InitBig ==
    /\ rootState = "present"
    /\ kids \in UNION {KidSeqs(BigTemplateNames, Ages, n) : n \in 1..MaxBigKids}
    /\ filler \in {MAX_ITEMS - 1, MAX_ITEMS}
    /\ fillerFirst \in BOOLEAN
    /\ fillerFirst => filler = MAX_ITEMS
    /\ fetchCost = 0
    /\ cmdTime = 0
    /\ virtualEnv = <<>>
    /\ NotStarted

\* No operation of GitService is in progress.
GitIdle ==
    /\ gitStatus = <<>>
    /\ gitConfigured = FALSE
    /\ gitOp = "none"
    /\ gitBefore = <<>>
    /\ gitChecked = FALSE
    /\ has_unstaged = FALSE
    /\ staged_changes = FALSE
    /\ gitResult = None

DEFAULT_DATA ==
    [projects |-> <<>>,
     snippets |-> <<[id |-> 1, title |-> "Virtual Environment Setup"],
                    [id |-> 2, title |-> "Quick DataFrame Info"]>>,
     sessions |-> <<>>]

\* A file that is not there.
AbsentFile == [kind |-> "absent", doc |-> <<>>, elements |-> {}]

\* No document has been handed out.
NoDocument == [doc |-> <<>>, shared |-> {}]

\* The process has just started: nothing was loaded or saved, and no
\* request is being served.
StoreIdle ==
    /\ dataFile = AbsentFile
    /\ defaults = DEFAULT_DATA
    /\ held = NoDocument
    /\ dataOp = "none"
    /\ fileBefore = AbsentFile
    /\ saveReturned = "none"
    /\ scanPc = "idle"
    /\ scanData = None
    /\ posted = None

\* The call of scan_projects is the first one.
FirstCall ==
    /\ scanNo = 1
    /\ first = [returned |-> <<>>, log |-> <<>>, elapsed |-> 0,
                fetchCost |-> 0, cmdTime |-> 0, later |-> 0]

\* None of the functions that keep no state has been called.
UtilIdle ==
    /\ utilOp = "none"
    /\ utilIn = None
    /\ utilOut = None

Init == (InitSmall \/ InitBig) /\ GitIdle /\ FirstCall /\ UtilIdle /\ StoreIdle

(***************************************************************************)
(* scan_projects, in steps: the part before the for loop, one iteration   *)
(* of the loop, and the two ways out of it.                               *)
(***************************************************************************)
fsVars == <<filler, fillerFirst, fetchCost, cmdTime, virtualEnv>>

\* Lines 202-208 fail: mkdir or open raises, outside every try block.
SeedRaises ==
    /\ pc = "start"
    /\ rootState = "uncreatable"
    /\ pc' = "raised"
    /\ UNCHANGED <<rootState, kids, fsVars, items, idx, processed, elapsed,
                   projects, returned, log>>
    /\ UNCHANGED <<gitVars, againVars, utilVars, storeVars>>

\* A slip: the root is listed before sample_project is put into it.
ListThenSeed ==
    /\ pc = "start"
    /\ rootState = "missing"
    /\ rootState' = "present"
    /\ kids' = <<[t |-> "sample_project", age |-> 0]>>
    /\ items' = <<>>
    /\ pc' = "loop"
    /\ UNCHANGED <<fsVars, idx, processed, elapsed, projects, returned, log>>
    /\ UNCHANGED <<gitVars, againVars, utilVars, storeVars>>

\* Lines 202-223 with the root missing: it is created with sample_project
\* in it, then listed.
SeedAndList ==
    /\ pc = "start"
    /\ rootState = "missing"
    /\ rootState' = "present"
    /\ kids' = <<[t |-> "sample_project", age |-> 0]>>
    /\ items' = <<1>>
    /\ pc' = "loop"
    /\ UNCHANGED <<fsVars, idx, processed, elapsed, projects, returned, log>>
    /\ UNCHANGED <<gitVars, againVars, utilVars, storeVars>>

\* Lines 210-223 with the root there: listed, and cut down to MAX_ITEMS.
List ==
    /\ pc = "start"
    /\ rootState = "present"
    /\ ~(Len(Listing) > MAX_ITEMS /\ StatRaises(Listing))
    /\ items' = Admit(Listing)
    /\ pc' = "loop"
    /\ UNCHANGED <<rootState, kids, fsVars, idx, processed, elapsed, projects,
                   returned, log>>
    /\ UNCHANGED <<gitVars, againVars, utilVars, storeVars>>

\* Lines 333-337: iterdir() raises, or a stat() inside the sort does.
ListRaises ==
    /\ pc = "start"
    /\ \/ rootState = "unlistable"
       \/ rootState = "present" /\ Len(Listing) > MAX_ITEMS /\ StatRaises(Listing)
    /\ returned' = <<>>
    /\ pc' = "done"
    /\ UNCHANGED <<rootState, kids, fsVars, items, idx, processed, elapsed,
                   projects, log>>
    /\ UNCHANGED <<gitVars, againVars, utilVars, storeVars>>

\* What one iteration of the for loop leaves behind.  The history keeps
\* whether a stat() raised while the item's record was being assembled.
Iterate(step, fails) ==
    /\ projects' = IF step.outcome = "record"
                   THEN Append(projects, step.record) ELSE projects
    /\ elapsed' = elapsed + step.took
    /\ log' = Append(log, [id |-> items[idx], at |-> elapsed,
                           took |-> step.took, outcome |-> step.outcome,
                           fails |-> fails /\ step.outcome \in
                                         {"record", "dropped", "fileerror"}])

\* Lines 226-327: one iteration of the for loop that passes the time check.
ProcessItem ==
    /\ pc = "loop"
    /\ idx <= Len(items)
    /\ ~TimedOut(elapsed)
    /\ \E fails \in BOOLEAN :
          Iterate(ProcessOne(Child(items[idx]), RepoOfChild(items[idx]),
                             fetchCost, cmdTime, virtualEnv,
                             first.later + elapsed, fails),
                  fails)
    /\ idx' = idx + 1
    /\ processed' = processed + 1
    /\ UNCHANGED <<rootState, kids, fsVars, pc, items, returned>>
    /\ UNCHANGED <<gitVars, againVars, utilVars, storeVars>>

\* Lines 228-230 and 329-331: the time check fails; break, then return.
ScanTimeout ==
    /\ pc = "loop"
    /\ idx <= Len(items)
    /\ TimedOut(elapsed)
    /\ returned' = projects
    /\ pc' = "done"
    /\ UNCHANGED <<rootState, kids, fsVars, items, idx, processed, elapsed,
                   projects, log>>
    /\ UNCHANGED <<gitVars, againVars, utilVars, storeVars>>

\* Lines 329-331: the loop ran out of items; return projects.
ScanReturn ==
    /\ pc = "loop"
    /\ idx > Len(items)
    /\ returned' = projects
    /\ pc' = "done"
    /\ UNCHANGED <<rootState, kids, fsVars, items, idx, processed, elapsed,
                   projects, log>>
    /\ UNCHANGED <<gitVars, againVars, utilVars, storeVars>>

Next ==
    \/ SeedRaises
    \/ SeedAndList
    \/ List
    \/ ListRaises
    \/ ProcessItem
    \/ ScanTimeout
    \/ ScanReturn

Spec == Init /\ [][Next]_vars

(***************************************************************************)
(* Two calls of scan_projects, one after the other, on a tree that        *)
(* nothing but the calls themselves touches.  The second call finds the   *)
(* entries and the git queries as fast or as slow as it happens, and its  *)
(* clock is later by the first call and by the time between the calls.    *)
(***************************************************************************)
AgainTemplateNames == {"app", "lib", "new", "docs", "run"}

\* Seconds between the return of the first call and the second call.
Gaps == {0, 120}

AgainInit ==
    /\ rootState \in {"present", "missing", "uncreatable", "unlistable"}
    /\ kids \in UNION {KidSeqs(AgainTemplateNames, {0}, n) : n \in 0..MaxKids}
    /\ rootState # "present" => kids = <<>>
    /\ filler = 0
    /\ fillerFirst = FALSE
    /\ fetchCost \in FetchCosts
    /\ cmdTime \in CommandTimes
    /\ fetchCost # 0 => cmdTime = 0
    /\ virtualEnv = <<>>
    /\ NotStarted
    /\ GitIdle
    /\ FirstCall
    /\ UtilIdle
    /\ StoreIdle

\* The first call has returned; scan_projects is called again.
ScanAgain ==
    /\ pc = "done"
    /\ scanNo = 1
    /\ scanNo' = 2
    /\ \E gap \in Gaps :
          first' = [returned |-> returned, log |-> log, elapsed |-> elapsed,
                    fetchCost |-> fetchCost, cmdTime |-> cmdTime,
                    later |-> elapsed + gap]
    /\ fetchCost' \in FetchCosts
    /\ cmdTime' \in CommandTimes
    /\ fetchCost' # 0 => cmdTime' = 0
    /\ pc' = "start"
    /\ items' = <<>>
    /\ idx' = 1
    /\ processed' = 0
    /\ elapsed' = 0
    /\ projects' = <<>>
    /\ returned' = <<>>
    /\ log' = <<>>
    /\ UNCHANGED <<rootState, kids, filler, fillerFirst, virtualEnv>>
    /\ UNCHANGED <<gitVars, utilVars, storeVars>>

AgainNext ==
    \/ SeedRaises
    \/ SeedAndList
    \/ List
    \/ ListRaises
    \/ ProcessItem
    \/ ScanTimeout
    \/ ScanReturn
    \/ ScanAgain

AgainSpec == AgainInit /\ [][AgainNext]_vars

(***************************************************************************)
(* services/git_service.py: add_files and commit_changes, and what the    *)
(* git commands that they run do to the repository.                       *)
(***************************************************************************)
Columns ==
    {<<"M", " ">>, <<" ", "M">>, <<"?", "?">>, <<"A", " ">>, <<"M", "M">>,
     <<" ", "D">>}

StagedMarks == {"A", "M", "D", "R", "C"}

\* "line.startswith('??') or (len(line) >= 2 and line[1] in ['M', 'D'])"
IsUnstagedLine(line) ==
    startswith(line, <<"?", "?">>) \/ (Len(line) >= 2 /\ line[2] \in {"M", "D"})

\* "len(line) >= 2 and line[0] in ['A', 'M', 'D', 'R', 'C']"
IsStagedLine(line) == Len(line) >= 2 /\ line[1] \in StagedMarks

\* "for line in stdout.strip().split('\n')"
LinesOf(stdout) == split(strip(stdout))

\* Lines 58-63: the loop that sets has_unstaged.
HasUnstaged(stdout) ==
    /\ Truthy(stdout)
    /\ \E i \in 1..Len(LinesOf(stdout)) : IsUnstagedLine(LinesOf(stdout)[i])

\* Lines 101-106: the loop that sets staged_changes.
HasStaged(stdout) ==
    /\ Truthy(stdout)
    /\ \E i \in 1..Len(LinesOf(stdout)) : IsStagedLine(LinesOf(stdout)[i])

\* Lines 72-76: staged_count.
StagedCount(after_status) ==
    IF after_status.success /\ Truthy(after_status.stdout)
    THEN Cardinality({i \in 1..Len(LinesOf(after_status.stdout)) :
                         IsStagedLine(LinesOf(after_status.stdout)[i])})
    ELSE 0

\* "git add .": every change in the worktree goes to the index.
StagedColumns(xy) ==
    IF xy = <<"?", "?">> THEN <<"A", " ">>
    ELSE IF xy[1] = " " THEN <<xy[2], " ">>
    ELSE <<xy[1], " ">>

GitAddAll(status) == [i \in 1..Len(status) |-> StagedColumns(status[i])]

\* "git commit": what is in the index is committed, the rest stays.
GitCommit(status) ==
    LET StaysChanged(xy) == xy = <<"?", "?">> \/ xy[2] # " "
        left == SelectSeq(status, StaysChanged)
    IN  [i \in 1..Len(left) |->
            IF left[i] = <<"?", "?">> THEN left[i] ELSE <<" ", left[i][2]>>]

SomethingStaged(status) ==
    \E i \in 1..Len(status) : status[i][1] \in StagedMarks

NothingToCommitText ==
    <<"n","o","t","h","i","n","g"," ","t","o"," ","c","o","m","m","i","t",","," ","w","o","r","k","i","n","g"," ","t","r","e","e"," ","c","l","e","a","n">>

\* add_files once the status is known (lines 57-80): the result, the
\* status of the repository afterwards and the local has_unstaged.
AddChecked(status, unstaged, addHow, afterHow) ==
    IF ~unstaged
    THEN [result |-> [success |-> FALSE, error |-> "No unstaged changes to add"],
          status |-> status, checked |-> TRUE, has_unstaged |-> unstaged]
    ELSE IF addHow = "exit0"
    THEN [result |->
              [success |-> TRUE,
               message |->
                   [n |-> StagedCount(run_command(afterHow,
                              PorcelainText(GitAddAll(status), 1), <<>>)),
                    text |-> "file(s) staged for commit"]],
          status |-> GitAddAll(status), checked |-> TRUE, has_unstaged |-> unstaged]
    ELSE [result |-> [success |-> FALSE, error |-> "Failed to add files"],
          status |-> status, checked |-> TRUE, has_unstaged |-> unstaged]

\* add_files (lines 48-80)
add_files(pathOk, status, status_result, addHow, afterHow) ==
    IF ~pathOk
    THEN [result |-> [success |-> FALSE, error |-> "Invalid project path"],
          status |-> status, checked |-> FALSE, has_unstaged |-> FALSE]
    ELSE IF ~status_result.success
    THEN [result |-> [success |-> FALSE, error |-> "Failed to check git status"],
          status |-> status, checked |-> FALSE, has_unstaged |-> FALSE]
    ELSE AddChecked(status, HasUnstaged(status_result.stdout), addHow, afterHow)

\* Lines 113-127: the commit and the message for its failure.
CommitRun(status, result) ==
    IF result.success
    THEN [result |-> [success |-> TRUE, message |-> "Changes committed successfully"],
          status |-> GitCommit(status)]
    ELSE IF contains(result.stderr, SubSeq(NothingToCommitText, 1, 17))
    THEN [result |-> [success |-> FALSE, error |-> "No changes to commit"],
          status |-> status]
    ELSE [result |-> [success |-> FALSE, error |-> "Commit failed"],
          status |-> status]

\* "git commit -m ...": it fails when nothing is staged, and may fail
\* otherwise.
GitCommitCommand(status, commitHow) ==
    IF ~SomethingStaged(status)
    THEN run_command("exit1", <<>>, NothingToCommitText)
    ELSE run_command(commitHow, <<>>, <<>>)

\* commit_changes once the status is known (lines 100-127)
CommitChecked(status, staged, commitHow) ==
    IF ~staged
    THEN [result |-> [success |-> FALSE,
                      error |-> "No staged changes to commit. Run \"Add Changes\" first."],
          status |-> status, checked |-> TRUE, staged_changes |-> staged]
    ELSE [checked |-> TRUE, staged_changes |-> staged] @@
         CommitRun(status, GitCommitCommand(status, commitHow))

\* commit_changes (lines 82-127)
commit_changes(pathOk, status, status_result, commitHow) ==
    IF ~pathOk
    THEN [result |-> [success |-> FALSE, error |-> "Invalid project path"],
          status |-> status, checked |-> FALSE, staged_changes |-> FALSE]
    ELSE IF ~status_result.success
    THEN [result |-> [success |-> FALSE, error |-> "Failed to check git status"],
          status |-> status, checked |-> FALSE, staged_changes |-> FALSE]
    ELSE CommitChecked(status, HasStaged(status_result.stdout), commitHow)

\* No call of scan_projects is in progress.
ScanIdle ==
    /\ rootState = "present"
    /\ kids = <<>>
    /\ filler = 0
    /\ fillerFirst = FALSE
    /\ fetchCost = 0
    /\ cmdTime = 0
    /\ virtualEnv = <<>>
    /\ NotStarted

GitInit ==
    /\ gitStatus \in UNION {[1..n -> Columns] : n \in 0..MaxLines}
    /\ gitConfigured \in BOOLEAN
    /\ gitOp = "none"
    /\ gitBefore = <<>>
    /\ gitChecked = FALSE
    /\ has_unstaged = FALSE
    /\ staged_changes = FALSE
    /\ gitResult = None
    /\ ScanIdle
    /\ FirstCall
    /\ UtilIdle
    /\ StoreIdle

\* What a call of add_files that comes to r leaves behind.
AddFilesReturns(r) ==
    /\ gitStatus' = r.status
    /\ gitChecked' = r.checked
    /\ has_unstaged' = r.has_unstaged
    /\ gitResult' = r.result

\* A call of add_files.
AddFiles ==
    /\ gitOp' = "add_files"
    /\ gitBefore' = gitStatus
    /\ staged_changes' = FALSE
    /\ \E pathOk \in BOOLEAN, how \in Hows, addHow \in {"exit0", "exit1"},
          afterHow \in {"exit0", "timeout"} :
           AddFilesReturns(
               add_files(pathOk, gitStatus,
                         run_command(how, PorcelainText(gitStatus, 1), <<>>),
                         addHow, afterHow))
    /\ UNCHANGED <<gitConfigured, scanVars, againVars, utilVars, storeVars>>

\* What a call of commit_changes that comes to r leaves behind; lines
\* 87-93 set user.email and user.name where they are missing.
CommitChangesReturns(pathOk, r) ==
    /\ gitStatus' = r.status
    /\ gitChecked' = r.checked
    /\ staged_changes' = r.staged_changes
    /\ gitResult' = r.result
    /\ gitConfigured' = (gitConfigured \/ pathOk)

\* A call of commit_changes.
CommitChanges ==
    /\ gitOp' = "commit_changes"
    /\ gitBefore' = gitStatus
    /\ has_unstaged' = FALSE
    /\ \E pathOk \in BOOLEAN, how \in Hows, commitHow \in {"exit0", "exit1"} :
           CommitChangesReturns(pathOk,
               commit_changes(pathOk, gitStatus,
                              run_command(how, PorcelainText(gitStatus, 1), <<>>),
                              commitHow))
    /\ UNCHANGED <<scanVars, againVars, utilVars, storeVars>>

GitNext ==
    \/ AddFiles
    \/ CommitChanges

GitSpec == GitInit /\ [][GitNext]_vars

(***************************************************************************)
(* The functions that keep no state: one call of one of them, with        *)
(* arguments from small sets.                                              *)
(***************************************************************************)
UtilInit ==
    /\ UtilIdle
    /\ StoreIdle
    /\ ScanIdle
    /\ GitIdle
    /\ FirstCall

\* A path with merge conflicts: "UU" in the two columns.
Unmerged == <<"U", "U">>

\* What "git status --porcelain" may print.
StatusOutputs == UNION {[1..n -> Columns \cup {Unmerged}] : n \in 0..MaxLines}

Queries == {"branch", "status", "remote", "log"}

DevText == <<"d", "e", "v", "\n">>

\* A call of get_git_status: whether .git is there, how each of the four
\* queries ends, and what the status and the remote query print.
GetGitStatus ==
    /\ utilOp = "none"
    /\ utilOp' = "get_git_status"
    /\ \E hasGit \in BOOLEAN, hows \in [Queries -> Hows],
          lines \in StatusOutputs, remote \in BOOLEAN :
           /\ ~hasGit => (hows = [q \in Queries |-> "exit0"] /\ lines = <<>> /\ remote)
           /\ Len(lines) > 1 =>
                 (hows.branch = "exit0" /\ hows.remote = "exit0"
                    /\ hows.log = "exit0" /\ remote)
           /\ utilIn' = [hasGit |-> hasGit, hows |-> hows, lines |-> lines,
                         remote |-> remote]
           /\ utilOut' =
                 IF ~hasGit THEN [hasGit |-> FALSE]
                 ELSE GitFields(
                          run_command(hows.branch, DevText, <<>>),
                          run_command(hows.status, PorcelainText(lines, 1), <<>>),
                          run_command(hows.remote,
                                      IF remote THEN RemoteText ELSE <<>>, <<>>),
                          run_command(hows.log, LogText, <<>>))
    /\ UNCHANGED <<scanVars, gitVars, againVars, storeVars>>

\* What may stand where <project>/venv is looked for.
VenvKinds == {"none", "file", "bare", "full"}

\* A project directory named app with that at venv.
ProjectWith(venv) ==
    Dir(<<"a","p","p">>,
        <<MainPy>> \o
        (CASE venv = "none" -> <<>>
           [] venv = "file" -> <<File(<<"v","e","n","v">>, NOW)>>
           [] venv = "bare" -> <<Venv(FALSE)>>
           [] venv = "full" -> <<Venv(TRUE)>>))

\* Values of VIRTUAL_ENV: unset, the venv of app, a path that goes on
\* after it, the venv of another project, and a path that ends before it.
AppVenv == <<"/", "p", "/", "a", "p", "p", "/", "v", "e", "n", "v">>

VirtualEnvValues ==
    {<<>>, AppVenv, AppVenv \o <<"2", "/", "x">>,
     <<"/", "p", "/", "l", "i", "b", "/", "v", "e", "n", "v">>,
     <<"/", "p", "/", "a", "p", "p">>}

\* A call of check_venv_status.
CheckVenvStatus ==
    /\ utilOp = "none"
    /\ utilOp' = "check_venv_status"
    /\ \E venv \in VenvKinds, virtual \in VirtualEnvValues :
           /\ utilIn' = [venv |-> venv, virtual |-> virtual]
           /\ utilOut' = check_venv_status(ProjectWith(venv), virtual)
    /\ UNCHANGED <<scanVars, gitVars, againVars, storeVars>>

\* How long ago, in seconds, the timestamps lie that get_relative_time is
\* called with: every half hour of the last days, and the seconds around
\* the places where the label changes.
AgoValues ==
    {1800 * k : k \in 0..MaxHalfHours}
        \cup {59, 60, 61, 119, 120, 3599, 3601, 7199, DAY - 1, DAY + 1,
              2 * DAY - 1, 8 * DAY - 1, 8 * DAY + 1}

\* How far ahead of the clock, in seconds, a timestamp may lie (a file
\* from a machine whose clock runs ahead).
AheadValues == {1, 61, 3601, DAY, DAY + 1}

\* A call of get_relative_time, with a timestamp of the past, with one
\* ahead of the clock, or with one that datetime.fromtimestamp does not
\* take.
GetRelativeTime ==
    /\ utilOp = "none"
    /\ utilOp' = "get_relative_time"
    /\ \E timestamp \in {NOW - ago : ago \in AgoValues}
                            \cup {NOW + ahead : ahead \in AheadValues}
                            \cup {MAX_TIMESTAMP + 1} :
           /\ utilIn' = [timestamp |-> timestamp, now |-> NOW]
           /\ utilOut' = get_relative_time(timestamp, NOW)
    /\ UNCHANGED <<scanVars, gitVars, againVars, storeVars>>

(***************************************************************************)
(* utils/data_manager.py: load_data.  The snapshot file is absent, cannot *)
(* be read, is no JSON, or holds a JSON value: an object (a dict, given   *)
(* as the function from its keys to what is stored under them), an array  *)
(* (a list, given by the strings in it) or a number.                      *)
(***************************************************************************)
\* What a stored document may hold under a key.
StoredValues == {<<>>, <<[id |-> 7, title |-> "stored"]>>}

\* The keys of a stored document: those of DEFAULT_DATA and one more.
StoredKeys == DOMAIN DEFAULT_DATA \cup {"theme"}

SnapshotFiles ==
    {[kind |-> k, doc |-> <<>>, elements |-> {}] :
        k \in {"absent", "unreadable", "garbage", "number"}}
        \cup {[kind |-> "object", doc |-> d, elements |-> {}] :
                 d \in UNION {[K -> StoredValues] : K \in SUBSET StoredKeys}}
        \cup {[kind |-> "array", doc |-> <<>>, elements |-> K] :
                 K \in SUBSET DOMAIN DEFAULT_DATA}

\* A slip: the defaults are written over what is stored.
FilledOver(data) ==
    [key \in DOMAIN data \cup DOMAIN DEFAULT_DATA |->
        IF key \in DOMAIN DEFAULT_DATA THEN DEFAULT_DATA[key] ELSE data[key]]

\* Lines 50-52: "if key not in data: data[key] = DEFAULT_DATA[key]"
Filled(data) ==
    [key \in DOMAIN data \cup DOMAIN DEFAULT_DATA |->
        IF key \in DOMAIN data THEN data[key] ELSE DEFAULT_DATA[key]]

\* load_data.  open() or json.load() raise for a file that cannot be read
\* or parsed; "key not in data" raises for a number, and for a list it
\* looks among the elements, "data[key] = ..." then raising for the first
\* key that is not among them; the except clause returns the defaults.
load_data(file) ==
    CASE file.kind = "absent" -> DEFAULT_DATA
      [] file.kind \in {"unreadable", "garbage", "number"} -> DEFAULT_DATA
      [] file.kind = "object" -> Filled(file.doc)
      [] file.kind = "array" ->
           IF DOMAIN DEFAULT_DATA \subseteq file.elements
           THEN [array |-> file.elements]
           ELSE DEFAULT_DATA

\* A call of load_data.
LoadData ==
    /\ utilOp = "none"
    /\ utilOp' = "load_data"
    /\ \E file \in SnapshotFiles :
           /\ utilIn' = file
           /\ utilOut' = load_data(file)
    /\ UNCHANGED <<scanVars, gitVars, againVars, storeVars>>

(***************************************************************************)
(* services/git_service.py: GitService.get_status (lines 129-134).        *)
(***************************************************************************)
WorkingTreeCleanText ==
    <<"W","o","r","k","i","n","g"," ","t","r","e","e"," ","c","l","e","a","n">>

\* get_status, result being what run_command returned for "git status
\* --short"; "result['stdout']" is read whatever became of the command.
get_status(pathOk, result) ==
    IF ~pathOk
    THEN [success |-> FALSE, error |-> "Invalid project path"]
    ELSE IF ~HasKey(result, "stdout")
    THEN KeyError
    ELSE [success |-> result.success,
          output |-> IF Truthy(result.stdout) THEN result.stdout
                     ELSE WorkingTreeCleanText]

\* A call of get_status.
GetStatus ==
    /\ utilOp = "none"
    /\ utilOp' = "get_status"
    /\ \E pathOk \in BOOLEAN, how \in Hows, lines \in StatusOutputs :
           /\ ~pathOk => (how = "exit0" /\ lines = <<>>)
           /\ utilIn' = [pathOk |-> pathOk, how |-> how, lines |-> lines]
           /\ utilOut' =
                 [result |-> run_command(how, PorcelainText(lines, 1), <<>>),
                  returned |->
                      get_status(pathOk,
                                 run_command(how, PorcelainText(lines, 1), <<>>))]
    /\ UNCHANGED <<scanVars, gitVars, againVars, storeVars>>

(***************************************************************************)
(* utils/credential_fallback.py.  An .env file is the sequence of its     *)
(* lines, env_vars the function from the names defined to their values.   *)
(***************************************************************************)
EnvContents ==
    {<<<<"G","I","T","H","U","B","_","T","O","K","E","N","=","g","o","o","d">>,
          <<"G","I","T","H","U","B","_","U","S","E","R","N","A","M","E","=","u","1">>,
          <<"G","I","T","_","E","M","A","I","L","=","e","1">>>>,
     <<<<"G","I","T","H","U","B","_","T","O","K","E","N","=","b","a","d">>,
          <<"G","I","T","H","U","B","_","U","S","E","R","N","A","M","E","=","u","2">>>>,
     <<<<"G","I","T","H","U","B","_","T","O","K","E","N","=","g","o","o","d">>>>,
     <<<<"#"," ","G","I","T","H","U","B","_","T","O","K","E","N","=","g","o","o","d">>,
          <<"G","I","T","H","U","B","_","U","S","E","R","N","A","M","E","=","u","1">>>>,
     <<<<" ","G","I","T","H","U","B","_","T","O","K","E","N"," ","="," ","g","o","o","d"," ">>,
          <<"G","I","T","H","U","B","_","U","S","E","R","N","A","M","E","=","u","3">>,
          <<"G","I","T","_","N","A","M","E","=","n","3">>>>,
     <<<<"G","I","T","H","U","B","_","T","O","K","E","N","=","b","a","d">>,
          <<"G","I","T","H","U","B","_","T","O","K","E","N","=","g","o","o","d">>,
          <<"G","I","T","H","U","B","_","U","S","E","R","N","A","M","E","=","u","4">>>>}

\* What rglob('.env') yields: files, a directory of that name, or a file
\* that open() raises for.
EnvItems ==
    {[kind |-> "file", lines |-> c] : c \in EnvContents}
        \cup {[kind |-> k, lines |-> <<>>] : k \in {"dir", "unreadable"}}

TokenName == <<"G","I","T","H","U","B","_","T","O","K","E","N">>
UsernameName == <<"G","I","T","H","U","B","_","U","S","E","R","N","A","M","E">>
EmailName == <<"G","I","T","_","E","M","A","I","L">>
NameName == <<"G","I","T","_","N","A","M","E">>

\* The tokens that the hosting API knows.
ValidTokens == {<<"g","o","o","d">>}

\* What "curl -s .../user" prints for a token.
UserJson == <<"{","\"","l","o","g","i","n","\"",":","\"","u","\"",",","\"","i","d","\"",":","1","}">>
BadCredentialsJson == <<"{","\"","m","e","s","s","a","g","e","\"",":","\"","B","a","d"," ","c","r","e","d","e","n","t","i","a","l","s","\"","}">>

ApiAnswer(token) == IF token \in ValidTokens THEN UserJson ELSE BadCredentialsJson

\* json.loads: the keys of the object that a text holds; no other text is
\* printed by the API here.
JsonKeys(text) == IF text = UserJson THEN {"login", "id"} ELSE {"message"}

\* "def run_command(command, cwd=None, capture_output=True)": a call with
\* another keyword raises TypeError.
RunCommandParameters == {"command", "cwd", "capture_output"}
Accepts(arguments) == arguments \subseteq RunCommandParameters

\* Position of the first "=" of a line that has one.
FirstEquals(line) ==
    CHOOSE i \in 1..Len(line) :
        line[i] = "=" /\ \A j \in 1..(i - 1) : line[j] # "="

\* "if line and '=' in line and not line.startswith('#')"
IsAssignment(line) ==
    /\ Truthy(line)
    /\ \E i \in 1..Len(line) : line[i] = "="
    /\ ~startswith(line, <<"#">>)

\* "env_vars[key.strip()] = value.strip()"
Assigned(env_vars, key, value) ==
    [k \in DOMAIN env_vars \cup {key} |-> IF k = key THEN value ELSE env_vars[k]]

\* Lines 21-24 for one line of the file.
ParseLine(env_vars, line) ==
    IF IsAssignment(line)
    THEN Assigned(env_vars,
                  strip(SubSeq(line, 1, FirstEquals(line) - 1)),
                  strip(SubSeq(line, FirstEquals(line) + 1, Len(line))))
    ELSE env_vars

RECURSIVE ParseLines(_, _, _)
ParseLines(lines, i, env_vars) ==
    IF i > Len(lines) THEN env_vars
    ELSE ParseLines(lines, i + 1, ParseLine(env_vars, strip(lines[i])))

\* env_vars.get(key, '')
GetOr(env_vars, key) == IF key \in DOMAIN env_vars THEN env_vars[key] ELSE <<>>

\* test_github_credentials (lines 44-57): run_command is called with
\* timeout=10; whatever is raised inside the try block is passed over.
test_github_credentials(token, how) ==
    IF ~Accepts({"command", "timeout"}) THEN FALSE
    ELSE IF ~HasKey(run_command(how, ApiAnswer(token), <<>>), "stdout") THEN FALSE
    ELSE /\ run_command(how, ApiAnswer(token), <<>>).success
         /\ Truthy(run_command(how, ApiAnswer(token), <<>>).stdout)
         /\ "login" \in JsonKeys(run_command(how, ApiAnswer(token), <<>>).stdout)

\* Lines 31-37: working_creds.
Credentials(env_vars, source_file) ==
    [GITHUB_TOKEN |-> env_vars[TokenName],
     GITHUB_USERNAME |-> GetOr(env_vars, UsernameName),
     GIT_EMAIL |-> GetOr(env_vars, EmailName),
     GIT_NAME |-> GetOr(env_vars, NameName),
     source_file |-> source_file]

\* Lines 16-40 for the i-th item: do its credentials work?
Works(item, how) ==
    /\ item.kind = "file"
    /\ TokenName \in DOMAIN ParseLines(item.lines, 1, <<>>)
    /\ UsernameName \in DOMAIN ParseLines(item.lines, 1, <<>>)
    /\ test_github_credentials(ParseLines(item.lines, 1, <<>>)[TokenName], how)

\* find_working_github_credentials; found is what rglob('.env') yields.
find_working_github_credentials(dirExists, found, how) ==
    IF ~dirExists THEN None
    ELSE IF \A i \in 1..Len(found) : ~Works(found[i], how) THEN None
    ELSE Credentials(
             ParseLines(found[Min({i \in 1..Len(found) : Works(found[i], how)})].lines,
                        1, <<>>),
             Min({i \in 1..Len(found) : Works(found[i], how)}))

\* A call of find_working_github_credentials.
FindWorkingGithubCredentials ==
    /\ utilOp = "none"
    /\ utilOp' = "find_working_github_credentials"
    /\ \E dirExists \in BOOLEAN, how \in Hows,
          found \in UNION {[1..n -> EnvItems] : n \in 0..MaxEnvFiles} :
           /\ ~dirExists => (how = "exit0" /\ found = <<>>)
           /\ utilIn' = [dirExists |-> dirExists, how |-> how, found |-> found]
           /\ utilOut' = find_working_github_credentials(dirExists, found, how)
    /\ UNCHANGED <<scanVars, gitVars, againVars, storeVars>>

(***************************************************************************)
(* The classifier of scan_projects on names from its tables: one          *)
(* iteration of the for loop on a child of that name that holds main.py,  *)
(* the classification of a project with a subdirectory of that name that  *)
(* holds a.py, and the classification of a project that holds one file of *)
(* that name.                                                              *)
(***************************************************************************)
UpperChar(c) ==
    IF \E i \in 1..Len(LowerChars) : LowerChars[i] = c
    THEN UpperChars[CHOOSE i \in 1..Len(LowerChars) : LowerChars[i] = c]
    ELSE c

\* the name in capitals, and with a capital first
upper(s) == [i \in 1..Len(s) |-> UpperChar(s[i])]
capitalize(s) == [i \in 1..Len(s) |-> IF i = 1 THEN UpperChar(s[i]) ELSE s[i]]

\* a name in the ways it may be written
Spellings(names) ==
    names \cup {lower(n) : n \in names} \cup {upper(n) : n \in names}
          \cup {capitalize(n) : n \in names}

DirectoryNames ==
    Spellings(SKIP_DIRS)
        \cup {<<".","h","i","d","d","e","n">>, <<"s","r","c">>, <<"x",".","e","g","g","-","i","n","f","o">>, <<"b","u","i","l","d","s">>, <<"m","y","_","e","n","v">>}

FileNames ==
    Spellings(IMPORTANT_FILES)
        \cup {<<"m","y">> \o n : n \in IMPORTANT_FILES}
        \cup {n \o <<".","b","a","k">> : n \in IMPORTANT_FILES}
        \cup {<<"a",".","p","y">>, <<"A",".","P","Y">>, <<"a",".","m","d">>, <<"A",".","M","D">>, <<"x",".","b","i","n">>, <<"n","o","t","e","s">>, <<"a",".","p","y","x">>}

APy == File(<<"a",".","p","y">>, NOW)

\* One iteration of the for loop of scan_projects (lines 232-327) on a
\* child directory of the given name.
ProcessNamedChild ==
    /\ utilOp = "none"
    /\ utilOp' = "process_child"
    /\ \E name \in DirectoryNames :
           /\ utilIn' = [name |-> name]
           /\ utilOut' = ProcessOne(Dir(name, <<MainPy>>), NoRepo, 0, 0, <<>>, 0, FALSE)
    /\ UNCHANGED <<scanVars, gitVars, againVars, storeVars>>

\* The two passes (lines 245-295) over a project with one subdirectory of
\* the given name.
ClassifyWithSubdir ==
    /\ utilOp = "none"
    /\ utilOp' = "classify_subdir"
    /\ \E name \in DirectoryNames :
           /\ utilIn' = [name |-> name]
           /\ utilOut' = Classify(Dir(<<"a","p","p">>, <<Dir(name, <<APy>>)>>), 0)
    /\ UNCHANGED <<scanVars, gitVars, againVars, storeVars>>

\* The two passes over a project with one file of the given name.
ClassifyWithFile ==
    /\ utilOp = "none"
    /\ utilOp' = "classify_file"
    /\ \E name \in FileNames :
           /\ utilIn' = [name |-> name]
           /\ utilOut' = Classify(Dir(<<"a","p","p">>, <<File(name, NOW)>>), 0)
    /\ UNCHANGED <<scanVars, gitVars, againVars, storeVars>>

(***************************************************************************)
(* The classifier on projects given by their counts: so many .py files    *)
(* and so many relevant files at root level, and two subdirectories with  *)
(* so many files of a .py spelling, the first of them with or without a   *)
(* directory of its own that holds one more .py file.                     *)
(***************************************************************************)
\* the i-th file with the given extension
NumberedFile(i, ext) ==
    File(<<"m", Digits[(i \div 10) + 1], Digits[(i % 10) + 1]>> \o ext, NOW)

DotPyCapitals == <<".", "P", "Y">>

DotMd == <<".", "m", "d">>

\* a subdirectory with n files of the extension, and maybe a directory
SubdirWith(name, n, ext, nested) ==
    Dir(name,
        [i \in 1..n |-> NumberedFile(i, ext)]
            \o (IF nested THEN <<Dir(<<"i","n","n","e","r">>, <<APy>>)>> ELSE <<>>))

CountedProject(in) ==
    Dir(<<"a","p","p">>,
        [i \in 1..in.rootPy |-> NumberedFile(i, DotPy)]
            \o [i \in 1..in.rootRel |-> NumberedFile(i, DotMd)]
            \o <<SubdirWith(<<"s","r","c">>, in.sub1, in.ext, in.nested),
                 SubdirWith(<<"p","k","g">>, in.sub2, in.ext, FALSE)>>)

RootCounts == {0, 1, DEEP_LIMIT - 1, DEEP_LIMIT}

SubCounts == {0, 1, PY_LIMIT - DEEP_LIMIT, PY_LIMIT - 1, PY_LIMIT, PY_LIMIT + 1, PY_LIMIT + 2}

CountedProjects ==
    [rootPy : RootCounts, rootRel : {0, 1}, sub1 : SubCounts, sub2 : {0, 2},
     ext : {DotPy, DotPyCapitals}, nested : BOOLEAN, c : {0, 1, 2}]

\* The two passes (lines 245-295) over such a project: what the root-level
\* pass leaves, and what both leave.
ClassifyCounted ==
    /\ utilOp = "none"
    /\ utilOp' = "classify_counted"
    /\ \E in \in CountedProjects :
           /\ utilIn' = in
           /\ utilOut' = [root |-> RootPass(CountedProject(in).entries, in.c),
                          both |-> Classify(CountedProject(in), in.c)]
    /\ UNCHANGED <<scanVars, gitVars, againVars, storeVars>>

(***************************************************************************)
(* services/git_service.py: GitService.push_changes (lines 136-157).  The *)
(* service holds the GitHub user "me" and the token "tok".  A call is     *)
(* described by what becomes of each command that it may run; cmds is the *)
(* sequence of the commands run, pushes the success of each push.         *)
(***************************************************************************)
CouldNotReadText == <<"c","o","u","l","d"," ","n","o","t"," ","r","e","a","d"," ","U","s","e","r","n","a","m","e">>
AuthenticationFailedText == <<"A","u","t","h","e","n","t","i","c","a","t","i","o","n"," ","f","a","i","l","e","d">>
NoUpstreamText == <<"n","o"," ","u","p","s","t","r","e","a","m"," ","b","r","a","n","c","h">>
GithubComText == <<"g","i","t","h","u","b",".","c","o","m">>
HttpsText == <<"h","t","t","p","s",":","/","/">>
ChangesPushedText == <<"C","h","a","n","g","e","s"," ","p","u","s","h","e","d">>

\* f'{self.github_username}:{self.github_token}@'
CredentialsAtText == <<"m","e",":","t","o","k","@">>

\* What a git push may come to, and what git then prints on stderr.
PushKinds ==
    {"ok", "username", "authentication", "upstream", "rejected", "timeout",
     "error"}

PushHow(kind) ==
    CASE kind = "ok" -> "exit0"
      [] kind \in {"timeout", "error"} -> kind
      [] OTHER -> "exit1"

PushStderr(kind) ==
    CASE kind = "username" -> <<"f","a","t","a","l",":"," ","c","o","u","l","d"," ","n","o","t"," ","r","e","a","d"," ","U","s","e","r","n","a","m","e"," ","f","o","r"," ","'","h","t","t","p","s",":","/","/","g","i","t","h","u","b",".","c","o","m","'">>
      [] kind = "authentication" -> <<"f","a","t","a","l",":"," ","A","u","t","h","e","n","t","i","c","a","t","i","o","n"," ","f","a","i","l","e","d"," ","f","o","r"," ","'","h","t","t","p","s",":","/","/","g","i","t","h","u","b",".","c","o","m","/","m","e","/","a","p","p",".","g","i","t","/","'">>
      [] kind = "upstream" -> <<"f","a","t","a","l",":"," ","T","h","e"," ","c","u","r","r","e","n","t"," ","b","r","a","n","c","h"," ","m","a","i","n"," ","h","a","s"," ","n","o"," ","u","p","s","t","r","e","a","m"," ","b","r","a","n","c","h",".">>
      [] kind = "rejected" -> <<"e","r","r","o","r",":"," ","f","a","i","l","e","d"," ","t","o"," ","p","u","s","h"," ","s","o","m","e"," ","r","e","f","s">>
      [] OTHER -> <<>>

GitPush(kind) == run_command(PushHow(kind), <<>>, PushStderr(kind))

\* The URLs that origin may have.
OriginUrls ==
    {<<"h","t","t","p","s",":","/","/","g","i","t","h","u","b",".","c","o","m","/","m","e","/","a","p","p",".","g","i","t">>,
     <<"h","t","t","p","s",":","/","/","m","e",":","t","o","k","@","g","i","t","h","u","b",".","c","o","m","/","m","e","/","a","p","p",".","g","i","t">>,
     <<"g","i","t","@","g","i","t","h","u","b",".","c","o","m",":","m","e","/","a","p","p",".","g","i","t">>,
     <<"h","t","t","p","s",":","/","/","g","i","t","l","a","b",".","c","o","m","/","m","e","/","a","p","p",".","g","i","t">>}

\* str.replace(old, new)
RECURSIVE replace(_, _, _)
replace(s, old, new) ==
    IF Len(s) < Len(old) THEN s
    ELSE IF startswith(s, old)
    THEN new \o replace(SubSeq(s, Len(old) + 1, Len(s)), old, new)
    ELSE <<Head(s)>> \o replace(Tail(s), old, new)

\* A slip: every failed push is taken for a failed authentication.
IsAuthFailureOfAnyKind(result) == ~result.success

\* Line 141: "not result['success'] and ('could not read Username' in
\* result['stderr'] or 'Authentication failed' in result['stderr'])"
IsAuthFailure(result) ==
    /\ ~result.success
    /\ \/ contains(result.stderr, CouldNotReadText)
       \/ contains(result.stderr, AuthenticationFailedText)

\* Line 144: "remote_result['success'] and 'github.com' in
\* remote_result['stdout']"
IsGithubRemote(remote_result) ==
    remote_result.success /\ contains(remote_result.stdout, GithubComText)

\* Line 147
HasCredentials(current_url) == contains(current_url, CredentialsAtText)

\* Line 139: the first push.
FirstPush(env) ==
    [cmds |-> <<"git push">>, pushes |-> <<GitPush(env.first).success>>,
     result |-> GitPush(env.first), url |-> env.url]

\* Lines 146-151, remote_result being what "git remote get-url origin"
\* came to.
Rewritten(env, st, remote_result) ==
    IF IsGithubRemote(remote_result) /\ ~HasCredentials(remote_result.stdout)
    THEN [cmds |-> st.cmds \o <<"git remote get-url origin",
                               "git remote set-url origin", "git push">>,
          pushes |-> Append(st.pushes, GitPush(env.retry).success),
          result |-> GitPush(env.retry),
          url |-> IF env.setUrl = "exit0"
                  THEN replace(remote_result.stdout, HttpsText,
                               HttpsText \o CredentialsAtText)
                  ELSE st.url]
    ELSE [st EXCEPT !.cmds = st.cmds \o <<"git remote get-url origin">>]

\* Lines 141-151
AfterAuthentication(env, st) ==
    IF IsAuthFailure(st.result)
    THEN Rewritten(env, st, run_command(env.remoteHow, st.url, <<>>))
    ELSE st

\* Lines 154-155
AfterUpstream(env, st) ==
    IF ~st.result.success /\ contains(st.result.stderr, NoUpstreamText)
    THEN [st EXCEPT !.cmds = Append(st.cmds, "git push --set-upstream origin main"),
                    !.pushes = Append(st.pushes, GitPush(env.upstream).success),
                    !.result = GitPush(env.upstream)]
    ELSE st

\* Line 157
PushReturned(st) ==
    [returned |-> [success |-> st.result.success,
                   message |-> IF st.result.success THEN ChangesPushedText
                               ELSE st.result.stderr],
     cmds |-> st.cmds, pushes |-> st.pushes, url |-> st.url]

push_changes(env) ==
    PushReturned(AfterUpstream(env, AfterAuthentication(env, FirstPush(env))))

PushEnvironments ==
    [first : PushKinds, remoteHow : {"exit0", "exit1", "timeout"},
     url : OriginUrls, setUrl : {"exit0", "exit1"}, retry : PushKinds,
     upstream : PushKinds]

\* A call of push_changes.
PushChanges ==
    /\ utilOp = "none"
    /\ utilOp' = "push_changes"
    /\ \E env \in PushEnvironments :
           /\ utilIn' = env
           /\ utilOut' = push_changes(env)
    /\ UNCHANGED <<scanVars, gitVars, againVars, storeVars>>

(***************************************************************************)
(* GitService.create_github_repository (lines 163-191) and                 *)
(* _try_fallback_credentials (lines 193-230).  curl says what became of   *)
(* the request to api.github.com/user/repos.                              *)
(***************************************************************************)
CurlKinds == {"created", "badcreds", "exists", "garbage", "exit1", "timeout"}

CreatedJson == <<"{","\"","h","t","m","l","_","u","r","l","\"",":","\"","h","\"",",","\"","c","l","o","n","e","_","u","r","l","\"",":","\"","h","t","t","p","s",":","/","/","g","i","t","h","u","b",".","c","o","m","/","m","e","/","a","p","p",".","g","i","t","\"","}">>
ExistsJson == <<"{","\"","m","e","s","s","a","g","e","\"",":","\"","R","e","p","o","s","i","t","o","r","y"," ","c","r","e","a","t","i","o","n"," ","f","a","i","l","e","d",".","\"","}">>
GarbageText == <<"<","h","t","m","l",">">>
BadCredentialsText == <<"B","a","d"," ","c","r","e","d","e","n","t","i","a","l","s">>
UnauthorizedText == <<"U","n","a","u","t","h","o","r","i","z","e","d">>

CurlResult(kind) ==
    CASE kind = "created" -> run_command("exit0", CreatedJson, <<>>)
      [] kind = "badcreds" -> run_command("exit0", BadCredentialsJson, <<>>)
      [] kind = "exists" -> run_command("exit0", ExistsJson, <<>>)
      [] kind = "garbage" -> run_command("exit0", GarbageText, <<>>)
      [] kind = "exit1" -> run_command("exit1", <<>>, <<>>)
      [] OTHER -> run_command("timeout", <<>>, <<>>)

\* json.loads: does it return, and with which keys; no other text is
\* printed by the API here.
IsJson(text) == text \in {CreatedJson, ExistsJson, BadCredentialsJson, UserJson}

RepoJsonKeys(text) ==
    IF text = CreatedJson THEN {"html_url", "clone_url"} ELSE JsonKeys(text)

\* Lines 185-187 and 224-226: origin is added and the branch renamed.
RepositoryCreated(env, cmds) ==
    [returned |-> [success |-> TRUE, message |-> "GitHub repository created"],
     cmds |-> cmds \o <<"git remote add origin", "git branch -M main">>,
     remote |-> env.remoteAdd = "exit0"]

NotCreated(error, cmds) ==
    [returned |-> [success |-> FALSE, error |-> error], cmds |-> cmds,
     remote |-> FALSE]

\* Lines 200-230, fallback_creds not being None; what is returned when the
\* second request gives no repository is None, which stands for "go on".
RetryWithFallback(env, cmds) ==
    IF env.envWritten /\ CurlResult(env.curlAgain).success
          /\ IsJson(CurlResult(env.curlAgain).stdout)
          /\ "html_url" \in RepoJsonKeys(CurlResult(env.curlAgain).stdout)
    THEN RepositoryCreated(env, Append(cmds, "curl"))
    ELSE [returned |-> None,
          cmds |-> IF env.envWritten THEN Append(cmds, "curl") ELSE cmds,
          remote |-> FALSE]

_try_fallback_credentials(env, cmds) ==
    IF find_working_github_credentials(TRUE, env.found, "exit0") = None
    THEN NotCreated("Authentication failed and no working credentials found in other projects", cmds)
    ELSE RetryWithFallback(env, cmds)

\* Lines 180-191
AfterRequest(env, result, cmds) ==
    IF result.success
    THEN IF ~IsJson(result.stdout)
         THEN NotCreated("Failed to parse GitHub response", cmds)
         ELSE IF "html_url" \in RepoJsonKeys(result.stdout)
         THEN RepositoryCreated(env, cmds)
         ELSE NotCreated("Failed to create repository", cmds)
    ELSE NotCreated("request failed", cmds)

\* Line 174
NeedsFallback(result) ==
    \/ ~result.success
    \/ contains(result.stdout, BadCredentialsText)
    \/ contains(result.stdout, UnauthorizedText)

\* Lines 174-178, fallback being what _try_fallback_credentials returned.
AfterFallback(env, result, fallback) ==
    IF fallback.returned # None THEN fallback
    ELSE AfterRequest(env, result, fallback.cmds)

\* create_github_repository; it does not look at project_path before the
\* request.
create_github_repository(env) ==
    IF ~env.tokenSet THEN NotCreated("GitHub token not configured", <<>>)
    ELSE IF NeedsFallback(CurlResult(env.curl))
    THEN AfterFallback(env, CurlResult(env.curl),
                       _try_fallback_credentials(env, <<"curl">>))
    ELSE AfterRequest(env, CurlResult(env.curl), <<"curl">>)

GoodEnv == [kind |-> "file", lines |-> <<<<"G","I","T","H","U","B","_","T","O","K","E","N","=","g","o","o","d">>, <<"G","I","T","H","U","B","_","U","S","E","R","N","A","M","E","=","u","1">>>>]

GithubEnvironments ==
    [tokenSet : BOOLEAN, curl : CurlKinds, found : {<<>>, <<GoodEnv>>},
     envWritten : {TRUE}, curlAgain : {"created"}, remoteAdd : {"exit0", "exit1"}]

(***************************************************************************)
(* GitService.fix_repository (lines 232-273).                              *)
(***************************************************************************)
LogKinds == {"commits", "empty", "exit1", "timeout"}

LogResult(kind) ==
    CASE kind = "commits" -> run_command("exit0", LogText, <<>>)
      [] kind = "empty" -> run_command("exit0", <<>>, <<>>)
      [] OTHER -> run_command(kind, <<>>, <<>>)

RemoteKinds == {"origin", "none", "timeout"}

RemoteResult(kind) ==
    CASE kind = "origin" -> run_command("exit0", RemoteText, <<>>)
      [] kind = "none" -> run_command("exit0", <<>>, <<>>)
      [] OTHER -> run_command("timeout", <<>>, <<>>)

\* What a call came to: what it returned, the commands it ran, and whether
\* the repository now has a commit and a remote and whether the last
\* command pushed.
Fixed(result, cmds, commits, remote, pushed) ==
    [returned |-> result, cmds |-> cmds, commits |-> commits,
     remote |-> remote, pushed |-> pushed]

NotFixed(error, cmds, commits, remote) ==
    Fixed([success |-> FALSE, error |-> error], cmds, commits, remote, FALSE)

\* Lines 261-269, github_result being what create_github_repository came to.
FixCreated(env, cmds, commits, github_result) ==
    IF ~github_result.returned.success
    THEN NotFixed("Failed to create GitHub repo", cmds \o github_result.cmds,
                  commits, github_result.remote)
    ELSE IF ~GitPush(env.push).success
    THEN NotFixed("Failed to push to GitHub",
                  cmds \o github_result.cmds \o <<"git push --set-upstream origin main">>,
                  commits, github_result.remote)
    ELSE Fixed([success |-> TRUE, message |-> "Repository fixed and GitHub repo created"],
               cmds \o github_result.cmds \o <<"git push --set-upstream origin main">>,
               commits, github_result.remote, TRUE)

\* Lines 254-273; "remote_result['stdout']" is read whatever became of
\* the command.
FixRemote(env, cmds, commits) ==
    IF ~HasKey(RemoteResult(env.remote), "stdout")
    THEN Fixed(KeyError, Append(cmds, "git remote -v"), commits, FALSE, FALSE)
    ELSE IF ~Truthy(RemoteResult(env.remote).stdout)
    THEN FixCreated(env, Append(cmds, "git remote -v"), commits,
                    create_github_repository(env.github))
    ELSE Fixed([success |-> TRUE, message |-> "Repository fixed - upstream branch set"],
               cmds \o <<"git remote -v", "git push --set-upstream origin main">>,
               commits, TRUE, GitPush(env.push).success)

\* Lines 246-252
FixCommits(env, cmds) ==
    IF ~LogResult(env.log).success \/ ~Truthy(LogResult(env.log).stdout)
    THEN IF ~run_command(env.commit, <<>>, <<>>).success
         THEN NotFixed("Failed to create initial commit",
                       cmds \o <<"git add .", "git commit">>,
                       env.log # "empty", env.remote = "origin")
         ELSE FixRemote(env, cmds \o <<"git add .", "git commit">>, TRUE)
    ELSE FixRemote(env, cmds, TRUE)

fix_repository(env) ==
    IF ~env.pathOk
    THEN NotFixed("Invalid project path", <<>>, FALSE, FALSE)
    ELSE IF ~env.gitDir
    THEN NotFixed("Not a git repository", <<>>, FALSE, FALSE)
    ELSE FixCommits(env, <<"git config user.email", "git config user.name",
                           "git log --oneline -1">>)

\* What there is to push with: a commit and a remote.
CanPush(env) ==
    /\ env.log = "commits" \/ env.commit = "exit0"
    /\ \/ env.remote = "origin"
       \/ /\ env.remote = "none"
          /\ create_github_repository(env.github).returned.success
          /\ env.github.remoteAdd = "exit0"

\* The inputs of a step that is never reached are held at one value.
FixEnvironments ==
    {env \in [pathOk : BOOLEAN, gitDir : BOOLEAN, log : LogKinds,
              commit : {"exit0", "exit1", "timeout"}, remote : RemoteKinds,
              github : GithubEnvironments,
              push : {"ok", "authentication", "timeout"}] :
        /\ ~(env.pathOk /\ env.gitDir) =>
               (env.log = "commits" /\ env.remote = "origin" /\ env.push = "authentication")
        /\ env.log = "commits" => env.commit = "exit0"
        /\ env.remote # "none" =>
               env.github = [tokenSet |-> TRUE, curl |-> "created", found |-> <<>>,
                             envWritten |-> TRUE, curlAgain |-> "created",
                             remoteAdd |-> "exit0"]
        /\ env.push = "ok" => CanPush(env)}

\* A call of fix_repository.
FixRepository ==
    /\ utilOp = "none"
    /\ utilOp' = "fix_repository"
    /\ \E env \in FixEnvironments :
           /\ utilIn' = env
           /\ utilOut' = fix_repository(env)
    /\ UNCHANGED <<scanVars, gitVars, againVars, storeVars>>

(***************************************************************************)
(* GitService.handle_action (lines 275-287) and the methods it calls.  A  *)
(* command that is to run in a directory that does not exist cannot be    *)
(* started: run_command returns its "error" result for it.                *)
(***************************************************************************)
ChangesPulledText == <<"C","h","a","n","g","e","s"," ","p","u","l","l","e","d">>

\* pull_changes (lines 159-161), result being what "git pull" came to.
pull_changes(result) ==
    [returned |-> [success |-> result.success,
                   message |-> IF result.success THEN ChangesPulledText
                               ELSE result.stderr],
     cmds |-> <<"git pull">>]

\* Lines 37-45 of init_repository.
InitCreated(env, cmds, github_result) ==
    IF github_result.returned.success
    THEN [returned |-> [success |-> TRUE, message |-> "Git initialized and GitHub repo created"],
          cmds |-> cmds \o github_result.cmds
                        \o <<"git push --set-upstream origin main">>]
    ELSE [returned |-> [success |-> TRUE, message |-> "Git repository initialized locally"],
          cmds |-> cmds \o github_result.cmds]

\* init_repository (lines 20-45)
init_repository(env) ==
    IF ~env.pathOk
    THEN [returned |-> [success |-> FALSE, error |-> "Invalid project path"],
          cmds |-> <<>>]
    ELSE IF ~run_command(env.how, <<>>, <<>>).success
    THEN [returned |-> [success |-> FALSE,
                        message |-> run_command(env.how, <<>>, <<>>).stderr],
          cmds |-> <<"git init">>]
    ELSE InitCreated(env,
                     <<"git init", "git config user.email", "git config user.name",
                       "git add .", "git commit">>,
                     create_github_repository(env.github))

\* The commands that add_files runs on its way to r.
AddCommands(pathOk, r) ==
    IF ~pathOk THEN <<>>
    ELSE IF ~r.has_unstaged THEN <<"git status --porcelain">>
    ELSE IF r.result.success
    THEN <<"git status --porcelain", "git add .", "git status --porcelain">>
    ELSE <<"git status --porcelain", "git add .">>

\* Lines 87-93 of commit_changes.
ConfigCommands(configured) ==
    <<"git config user.email", "git config user.name">>
        \o (IF configured THEN <<>>
            ELSE <<"git config user.email", "git config user.name">>)

\* The commands that commit_changes runs on its way to r.
CommitCommands(env, r) ==
    IF ~env.pathOk THEN <<>>
    ELSE ConfigCommands(env.configured) \o <<"git status --porcelain">>
            \o (IF r.staged_changes THEN <<"git commit">> ELSE <<>>)

\* What the methods are called with, for an environment of handle_action.
AddOf(env) ==
    add_files(env.pathOk, env.lines,
              run_command(env.how, PorcelainText(env.lines, 1), <<>>),
              "exit0", "exit0")

CommitOf(env) ==
    commit_changes(env.pathOk, env.lines,
                   run_command(env.how, PorcelainText(env.lines, 1), <<>>),
                   "exit0")

PushOf(env) ==
    push_changes([first |-> env.push,
                  remoteHow |-> IF env.pathOk THEN "exit0" ELSE "error",
                  url |-> <<"h","t","t","p","s",":","/","/","g","i","t","h","u","b",".","c","o","m","/","m","e","/","a","p","p",".","g","i","t">>,
                  setUrl |-> "exit0", retry |-> env.push, upstream |-> env.push])

FixOf(env) ==
    fix_repository([pathOk |-> env.pathOk, gitDir |-> TRUE, log |-> "commits",
                    commit |-> "exit0", remote |-> "origin",
                    github |-> env.github, push |-> env.push])

Actions ==
    {"init", "add", "commit", "status", "push", "pull", "create-github", "fix"}

\* handle_action: the lambda of the action is called, or the default.
handle_action(action, env) ==
    CASE action = "init" -> init_repository(env)
      [] action = "add" ->
           [returned |-> AddOf(env).result,
            cmds |-> AddCommands(env.pathOk, AddOf(env))]
      [] action = "commit" ->
           [returned |-> CommitOf(env).result,
            cmds |-> CommitCommands(env, CommitOf(env))]
      [] action = "status" ->
           [returned |-> get_status(env.pathOk,
                             run_command(env.how, PorcelainText(env.lines, 1), <<>>)),
            cmds |-> IF env.pathOk THEN <<"git status --short">> ELSE <<>>]
      [] action = "push" ->
           [returned |-> PushOf(env).returned, cmds |-> PushOf(env).cmds]
      [] action = "pull" -> pull_changes(run_command(env.how, <<>>, <<>>))
      [] action = "create-github" ->
           [returned |-> create_github_repository(env.github).returned,
            cmds |-> create_github_repository(env.github).cmds]
      [] action = "fix" ->
           [returned |-> FixOf(env).returned, cmds |-> FixOf(env).cmds]
      [] OTHER ->
           [returned |-> [success |-> FALSE, error |-> "Unknown action"],
            cmds |-> <<>>]

\* Nothing can be run or pushed in a directory that does not exist.
HandleEnvironments ==
    {env \in [pathOk : BOOLEAN, how : Hows, configured : BOOLEAN,
              lines : {<<>>, <<<<" ", "M">>>>, <<<<"M", " ">>, <<"?", "?">>>>},
              push : {"ok", "authentication", "upstream", "error"},
              github : {g \in GithubEnvironments :
                           /\ g.curl \in {"created", "badcreds"}
                           /\ g.found = <<>>}] :
        /\ env.github.remoteAdd = (IF env.pathOk THEN "exit0" ELSE "exit1")
        /\ ~env.pathOk =>
               /\ env.how = "error"
               /\ env.push = "error"
               /\ env.lines = <<>>
               /\ env.configured
        /\ env.pathOk => (env.how # "error" /\ env.push # "error")}

\* A call of handle_action.
HandleAction ==
    /\ utilOp = "none"
    /\ utilOp' = "handle_action"
    /\ \E action \in Actions \cup {"delete"}, env \in HandleEnvironments :
           /\ utilIn' = [action |-> action, env |-> env]
           /\ utilOut' = handle_action(action, env)
    /\ UNCHANGED <<scanVars, gitVars, againVars, storeVars>>

UtilNext ==
    \/ GetGitStatus
    \/ CheckVenvStatus
    \/ GetRelativeTime
    \/ LoadData
    \/ GetStatus
    \/ FindWorkingGithubCredentials
    \/ ProcessNamedChild
    \/ ClassifyWithSubdir
    \/ ClassifyWithFile
    \/ ClassifyCounted
    \/ PushChanges
    \/ FixRepository
    \/ HandleAction

UtilSpec == UtilInit /\ [][UtilNext]_vars

(***************************************************************************)
(* utils/data_manager.py over the life of a process: load_data and        *)
(* save_data called one after the other, the caller changing the document *)
(* it was handed in between.  DEFAULT_DATA is one dict whose values are   *)
(* lists: "DEFAULT_DATA.copy()" copies the dict and not the lists, and    *)
(* "data[key] = DEFAULT_DATA[key]" stores the list itself, so a returned  *)
(* document may hold the lists of DEFAULT_DATA.                            *)
(***************************************************************************)
\* The appended items a document, and DEFAULT_DATA, may come to hold.
MaxAppends == 1

\* What a caller appends: an item json can encode, and one it cannot (a
\* datetime, say).
NewItem == [id |-> 9, title |-> "appended"]

NotJson == [id |-> 0, title |-> "not JSON"]

AppendedItems == {NewItem, NotJson}

\* The files the process may find when it starts.
DataFiles ==
    {file \in SnapshotFiles :
        /\ file.kind \in {"absent", "garbage", "object"}
        /\ DOMAIN file.doc \subseteq DOMAIN DEFAULT_DATA}

\* Lines 50-52 with the DEFAULT_DATA of the moment.
FilledFrom(data, defs) ==
    [key \in DOMAIN data \cup DOMAIN defs |->
        IF key \in DOMAIN data THEN data[key] ELSE defs[key]]

\* load_data (lines 45-59) with the DEFAULT_DATA of the moment: the
\* document returned, and the keys under which it holds a list of
\* DEFAULT_DATA itself.
LoadedFrom(file, defs) ==
    IF file.kind = "object"
    THEN [doc |-> FilledFrom(file.doc, defs),
          shared |-> DOMAIN defs \ DOMAIN file.doc]
    ELSE [doc |-> defs, shared |-> DOMAIN defs]

\* The appended items in a document.
Appended(doc) ==
    {<<key, i>> \in (DOMAIN doc) \X (1..(3 + MaxAppends)) :
        i <= Len(doc[key]) /\ doc[key][i] \in AppendedItems}

\* json.dump can encode the document.
Encodable(doc) ==
    \A key \in DOMAIN doc :
        \A i \in 1..Len(doc[key]) : doc[key][i] # NotJson

\* save_data (lines 72-80): open(data_file, 'w') raises and the file is as
\* it was, or it empties the file; json.dump then writes the document piece
\* by piece, and raises at a value it cannot encode, leaving the pieces
\* written so far; every exception is caught and False returned.
Saved(file, doc, opened) ==
    IF ~opened
    THEN [file |-> file, returned |-> "False"]
    ELSE IF Encodable(doc)
    THEN [file |-> [kind |-> "object", doc |-> doc, elements |-> {}],
          returned |-> "True"]
    ELSE [file |-> [kind |-> "garbage", doc |-> <<>>, elements |-> {}],
          returned |-> "False"]

\* A call of load_data.
Load ==
    /\ held' = LoadedFrom(dataFile, defaults)
    /\ dataOp' = "load_data"
    /\ UNCHANGED <<dataFile, defaults, fileBefore, saveReturned>>
    /\ UNCHANGED <<scanVars, gitVars, againVars, utilVars, routeVars>>

\* The caller appends to a list of the document it holds,
\* "data['snippets'].append(item)": the list of DEFAULT_DATA grows with it
\* where the document holds that very list.
CallerAppends ==
    /\ held # NoDocument
    /\ \E key \in DOMAIN DEFAULT_DATA, item \in AppendedItems :
           /\ Cardinality(Appended(held.doc)) < MaxAppends
           /\ Cardinality(Appended(defaults)) < MaxAppends
           /\ held' = [held EXCEPT !.doc[key] = Append(@, item)]
           /\ defaults' = IF key \in held.shared
                          THEN [defaults EXCEPT ![key] = Append(@, item)]
                          ELSE defaults
    /\ dataOp' = "append"
    /\ UNCHANGED <<dataFile, fileBefore, saveReturned>>
    /\ UNCHANGED <<scanVars, gitVars, againVars, utilVars, routeVars>>

\* The caller stores a list of its own under a key, as dash.py does with
\* "data['projects'] = scan_projects()": DEFAULT_DATA is left alone.
CallerAssigns ==
    /\ held # NoDocument
    /\ \E value \in StoredValues :
           held' = [doc |-> [held.doc EXCEPT !.projects = value],
                    shared |-> held.shared \ {"projects"}]
    /\ dataOp' = "assign"
    /\ UNCHANGED <<dataFile, defaults, fileBefore, saveReturned>>
    /\ UNCHANGED <<scanVars, gitVars, againVars, utilVars, routeVars>>

\* A call of save_data with the document the caller holds.
Save ==
    /\ held # NoDocument
    /\ \E opened \in BOOLEAN :
           /\ dataFile' = Saved(dataFile, held.doc, opened).file
           /\ saveReturned' = Saved(dataFile, held.doc, opened).returned
    /\ fileBefore' = dataFile
    /\ dataOp' = "save_data"
    /\ UNCHANGED <<defaults, held>>
    /\ UNCHANGED <<scanVars, gitVars, againVars, utilVars, routeVars>>

DataInit ==
    /\ dataFile \in DataFiles
    /\ defaults = DEFAULT_DATA
    /\ held = NoDocument
    /\ dataOp = "none"
    /\ fileBefore = AbsentFile
    /\ saveReturned = "none"
    /\ scanPc = "idle"
    /\ scanData = None
    /\ posted = None
    /\ UtilIdle
    /\ ScanIdle
    /\ GitIdle
    /\ FirstCall

DataNext ==
    \/ Load
    \/ CallerAppends
    \/ CallerAssigns
    \/ Save

DataSpec == DataInit /\ [][DataNext]_vars

(***************************************************************************)
(* dash.py: the routes /api/scan-projects (lines 554-564) and             *)
(* /api/save-data (lines 797-806).  The server is started with            *)
(* threaded=True, each request runs in a thread of its own and nothing is *)
(* locked: a save-data request may be served while a scan-projects        *)
(* request stands between its load_data and its save_data.  load_data and *)
(* save_data of dash.py (lines 80-108) are those of utils/data_manager.py *)
(* with the file name fixed.                                               *)
(***************************************************************************)
\* What a client posts to /api/save-data: documents with new snippets and
\* sessions.
PostedDocuments ==
    [projects : {<<>>},
     snippets : {<<[id |-> 8, title |-> "posted"]>>,
                 <<[id |-> 1, title |-> "Virtual Environment Setup"],
                   [id |-> 8, title |-> "posted"]>>},
     sessions : {<<>>, <<[id |-> 5, title |-> "session"]>>}]

\* What scan_projects returns to the route.
ScannedProjects == {<<>>, <<[id |-> 3, title |-> "app"]>>}

\* The files the server may find when it starts.
RouteFiles ==
    {file \in DataFiles :
        file.kind = "object" => file.doc \in [DOMAIN file.doc -> {<<>>}]
                                   \/ DOMAIN file.doc = DOMAIN DEFAULT_DATA}

\* Line 558: "data = load_data()".
ScanProjectsRouteLoads ==
    /\ scanPc = "idle"
    /\ scanData' = load_data(dataFile)
    /\ scanPc' = "loaded"
    /\ UNCHANGED <<dataVars, posted>>
    /\ UNCHANGED <<scanVars, gitVars, againVars, utilVars>>

\* Lines 559-561: "data['projects'] = scan_projects()", "save_data(data)",
\* and the response.
ScanProjectsRouteSaves ==
    /\ scanPc = "loaded"
    /\ \E found \in ScannedProjects, opened \in BOOLEAN :
           /\ scanData' = [scanData EXCEPT !.projects = found]
           /\ dataFile' = Saved(dataFile, scanData', opened).file
           /\ saveReturned' = Saved(dataFile, scanData', opened).returned
    /\ fileBefore' = dataFile
    /\ dataOp' = "scan_projects_route"
    /\ scanPc' = "done"
    /\ UNCHANGED <<defaults, held, posted>>
    /\ UNCHANGED <<scanVars, gitVars, againVars, utilVars>>

\* save_data_route: "data = request.json", "success = save_data(data)".
\* Whether the request was served between the load and the save of the
\* scan-projects request is recorded with what it stored.
SaveDataRoute ==
    /\ posted = None
    /\ \E doc \in PostedDocuments, opened \in BOOLEAN :
           /\ dataFile' = Saved(dataFile, doc, opened).file
           /\ saveReturned' = Saved(dataFile, doc, opened).returned
           /\ posted' = [type |-> "posted", doc |-> doc,
                         stored |-> opened, between |-> scanPc = "loaded"]
    /\ fileBefore' = dataFile
    /\ dataOp' = "save_data_route"
    /\ UNCHANGED <<defaults, held, scanPc, scanData>>
    /\ UNCHANGED <<scanVars, gitVars, againVars, utilVars>>

RouteInit ==
    /\ dataFile \in RouteFiles
    /\ defaults = DEFAULT_DATA
    /\ held = NoDocument
    /\ dataOp = "none"
    /\ fileBefore = AbsentFile
    /\ saveReturned = "none"
    /\ scanPc = "idle"
    /\ scanData = None
    /\ posted = None
    /\ UtilIdle
    /\ ScanIdle
    /\ GitIdle
    /\ FirstCall

RouteNext ==
    \/ ScanProjectsRouteLoads
    \/ ScanProjectsRouteSaves
    \/ SaveDataRoute

RouteSpec == RouteInit /\ [][RouteNext]_vars

\* both columns of a status entry, as git documents them
ColumnsUnstaged(xy) == xy = <<"?", "?">> \/ xy[2] \in {"M", "D"}
ColumnsStaged(xy) == xy[1] \in StagedMarks

\* C9: the lines of the porcelain status are classified by their two
\* columns wherever they stand in the output, the first line too: add_files
\* finds unstaged changes iff some entry has M or D in the second column or
\* is untracked, commit_changes finds staged changes iff some entry has a
\* mark in the first column.
C9_ClassifiedByColumns ==
    /\ (gitOp = "add_files" /\ gitChecked) =>
          has_unstaged =
              (\E i \in 1..Len(gitBefore) : ColumnsUnstaged(gitBefore[i]))
    /\ (gitOp = "commit_changes" /\ gitChecked) =>
          staged_changes =
              (\E i \in 1..Len(gitBefore) : ColumnsStaged(gitBefore[i]))

(***************************************************************************)
(* Properties of scan_projects.  They are stated over the call's state    *)
(* and its history, and over the filesystem it was given.                 *)
(***************************************************************************)
Range(s) == {s[i] : i \in 1..Len(s)}

Children == 1..NumChildren

\* list holds a record for the i-th child of the root
HasRecord(list, i) == \E r \in 1..Len(list) : list[r].name = Child(i).name

\* how many records list holds for the i-th child of the root
RecordCount(list, i) ==
    Cardinality({r \in 1..Len(list) : list[r].name = Child(i).name})

\* the names of the entries of the history that gave a record, in order
RecordedNames(history) ==
    LET GaveRecord(entry) == entry.outcome = "record"
        kept == SelectSeq(history, GaveRecord)
    IN  [k \in 1..Len(kept) |-> Child(kept[k].id).name]

NamesOf(list) == [r \in 1..Len(list) |-> list[r].name]

\* what the iteration for the i-th child comes to when nothing raises while
\* its record is assembled
Undisturbed(i, e) ==
    ProcessOne(Child(i), RepoOfChild(i), fetchCost, cmdTime, virtualEnv, e, FALSE)

\* C1: scan_projects is total: whatever the state of the filesystem, the
\* call returns a list and never raises an exception to its caller.
C1_ScanIsTotal == pc # "raised"

\* C3: with more than 50 children of the root, the candidates are exactly
\* the 50 children with the latest modification times, and a child older
\* than those is never classified and never appears in the result.
C3_FiftyLatestAdmitted ==
    (pc \in {"loop", "done"} /\ NumChildren > MAX_ITEMS) =>
        /\ Len(items) = MAX_ITEMS
        /\ Cardinality(Range(items)) = MAX_ITEMS
        /\ \A i \in Range(items) : \A j \in Children \ Range(items) :
              Child(i).mtime >= Child(j).mtime
        /\ \A k \in 1..Len(log) : log[k].id \in Range(items)
        /\ \A j \in Children \ Range(items) : ~HasRecord(projects, j)

\* C4: the elapsed time is checked before each child is classified; once a
\* check finds more than 15 seconds elapsed no further child is classified
\* or added, and what is returned is the records collected so far: the
\* records of a prefix of the candidates, in their order.
C4_BudgetStopsAtPrefix ==
    /\ Len(log) = idx - 1
    /\ Len(log) <= Len(items)
    /\ \A k \in 1..Len(log) :
          /\ log[k].id = items[k]
          /\ log[k].at <= MAX_SCAN_TIME
          /\ log[k].at + log[k].took =
                (IF k < Len(log) THEN log[k + 1].at ELSE elapsed)
    /\ NamesOf(projects) = RecordedNames(log)
    /\ pc = "done" =>
          /\ returned = projects
          /\ Len(log) < Len(items) => elapsed > MAX_SCAN_TIME

\* C4 happens: a walk that the budget cut short, with records to return.
C4_Witness ==
    /\ pc = "done"
    /\ elapsed > MAX_SCAN_TIME
    /\ Len(log) < Len(items)
    /\ returned # <<>>

\* every candidate takes 20 seconds to process
EachTakesTwenty ==
    /\ fetchCost = 0
    /\ cmdTime = 5
    /\ \A k \in 1..Len(items) : Undisturbed(items[k], 0).took = 20

\* C5 as it stands: with candidates that take 20 seconds each, the call
\* returns strictly fewer records than there are candidates and does not
\* raise, for every number of candidates.
C5_FewerRecordsThanCandidates ==
    (Len(items) >= 1 /\ EachTakesTwenty) =>
        /\ pc # "raised"
        /\ pc = "done" => Len(returned) < Len(items)

\* C5, amended: with two or more candidates that take 20 seconds each, the
\* call returns strictly fewer records than there are candidates and does
\* not raise.
C5_FewerRecordsFromTwo ==
    (Len(items) >= 2 /\ EachTakesTwenty) =>
        /\ pc # "raised"
        /\ pc = "done" => Len(returned) < Len(items)

\* C5 happens: two candidates of 20 seconds each, and the walk has returned.
C5_Witness ==
    /\ pc = "done"
    /\ Len(items) >= 2
    /\ EachTakesTwenty
    /\ Len(returned) = 1

\* A file named *.py, in any case of the letters, at the root of item or in
\* one of its subdirectories.
HasPythonNearby(item) ==
    \/ \E k \in 1..Len(item.entries) :
          /\ item.entries[k].kind = "file"
          /\ lower(suffix(item.entries[k].name)) = DotPy
    \/ \E k \in 1..Len(item.entries) :
          /\ item.entries[k].kind = "dir"
          /\ \E j \in 1..Len(item.entries[k].entries) :
                /\ item.entries[k].entries[j].kind = "file"
                /\ lower(suffix(item.entries[k].entries[j].name)) = DotPy

\* C6: a child directory in which the bounded scan finds no .py file, such
\* as one that holds only a README or configuration files, never produces
\* a record in the result: every directory that has a record in it has a
\* .py file at its root or one level down, the record counts at least one,
\* and a directory whose scan found none has no record.
C6_NoPythonNoRecord ==
    pc = "done" =>
        /\ \A r \in 1..Len(returned) :
              returned[r].type = "folder" =>
                  /\ returned[r].pythonFiles >= 1
                  /\ \E k \in 1..Len(log) :
                        /\ log[k].outcome = "record"
                        /\ Child(log[k].id).name = returned[r].name
                        /\ Child(log[k].id).kind = "dir"
                        /\ HasPythonNearby(Child(log[k].id))
        /\ \A k \in 1..Len(log) :
              (/\ log[k].outcome # "ignored"
               /\ Child(log[k].id).kind = "dir"
               /\ Classify(Child(log[k].id), fetchCost).py = <<>>) =>
                  ~HasRecord(returned, log[k].id)

\* C6 happens: a directory with relevant files and no .py file was scanned,
\* and the call returned without a record for it.
C6_Witness ==
    /\ pc = "done"
    /\ \E k \in 1..Len(log) :
          /\ log[k].outcome = "nopy"
          /\ Classify(Child(log[k].id), fetchCost).rel > 0
          /\ ~HasPythonNearby(Child(log[k].id))
          /\ ~HasRecord(returned, log[k].id)

\* fewer than MAX_ITEMS other children can come before the i-th when the
\* children are sorted, so that it is a candidate wherever a child without
\* a modification time is put
SurelyCandidate(i) ==
    \/ NumChildren <= MAX_ITEMS
    \/ Cardinality({j \in Children \ {i} :
          Child(j).kind = "broken" \/ Child(j).mtime >= Child(i).mtime})
          < MAX_ITEMS

\* the iteration for the i-th child was disturbed by a failure of its own
FailedItself(i) == \E k \in 1..Len(log) : log[k].id = i /\ log[k].fails

\* C7: a failure on one child of the root (also a stat() that fails while
\* the children are sorted for admission) only skips that child: after a
\* walk that the budget did not cut short, every other candidate that
\* makes a record has its record in the result.
C7_BadChildOnlySkipped ==
    (pc = "done" /\ elapsed <= MAX_SCAN_TIME) =>
        \A i \in Children :
            (/\ Child(i).kind # "broken"
             /\ SurelyCandidate(i)
             /\ ~FailedItself(i)
             /\ Undisturbed(i, 0).outcome = "record") =>
                HasRecord(returned, i)

FolderKeys ==
    {"name", "path", "type", "venv", "git", "lastModified", "pythonFiles",
     "relevantFiles", "favorite"}

FileKeys == {"name", "path", "type", "venv", "git", "lastModified", "favorite"}

\* the entry of the history for the iteration that was made last
Latest == log[Len(log)]

\* entry is what the iteration u gives, but for a failure of its own
AsUndisturbed(entry, u) ==
    /\ entry.took = u.took
    /\ ~entry.fails => entry.outcome = u.outcome
    /\ entry.outcome = "record" => projects[Len(projects)] = u.record

\* C8: when assembling the record of a directory raises, the directory
\* contributes no record, not even a partial one, and the records of the
\* other children are what they would have been, in the same order: the
\* failed iteration takes the time that it takes without the failure, and
\* every other iteration, when it is made, gives the outcome and the
\* record that it gives without the failure.
C8_FailedAssemblyDropsOneRecord ==
    /\ \A k \in 1..Len(log) :
          (log[k].fails /\ Child(log[k].id).kind = "dir") =>
              (log[k].outcome = "dropped" /\ ~HasRecord(projects, log[k].id))
    /\ (pc = "loop" /\ log # <<>>) =>
          AsUndisturbed(Latest, Undisturbed(Latest.id, Latest.at))
    /\ \A r \in 1..Len(projects) :
          DOMAIN projects[r] =
              (IF projects[r].type = "folder" THEN FolderKeys ELSE FileKeys)
    /\ NamesOf(projects) = RecordedNames(log)

\* C8 happens: the record of one directory failed to assemble, and the
\* call returned the record of a directory that came after it.
C8_Witness ==
    /\ pc = "done"
    /\ \E k \in 1..Len(log) : \E l \in (k + 1)..Len(log) :
          /\ log[k].outcome = "dropped"
          /\ log[l].outcome = "record"
          /\ Child(log[l].id).kind = "dir"
          /\ HasRecord(returned, log[l].id)
          /\ ~HasRecord(returned, log[k].id)

\* C10: the status record of a directory with version-control metadata
\* carries needsFix and fixReason; needsFix is true iff the repository has
\* no commits or no remote, and with neither the reason is "no commits".
C10_NeedsFixReported ==
    \A k \in 1..Len(log) : \A r \in 1..Len(projects) :
        (/\ projects[r].name = Child(log[k].id).name
         /\ projects[r].git.hasGit
         /\ cmdTime < COMMAND_TIMEOUT) =>
            /\ "needsFix" \in DOMAIN projects[r].git
            /\ "fixReason" \in DOMAIN projects[r].git
            /\ projects[r].git.needsFix =
                  (~RepoOfChild(log[k].id).commits \/ ~RepoOfChild(log[k].id).remote)
            /\ (~RepoOfChild(log[k].id).commits /\ ~RepoOfChild(log[k].id).remote) =>
                  projects[r].git.fixReason = "no commits"

(***************************************************************************)
(* What the two passes over a directory come to, said without the loops:  *)
(* which entries the passes look at before a budget or a cap ends them,   *)
(* and whether a .py file is among what they look at.                     *)
(***************************************************************************)
\* the positions of the files that the root-level pass counts
CountedAtRoot(entries) ==
    {m \in 1..Len(entries) :
        /\ entries[m].kind = "file"
        /\ IsPythonAtRoot(entries[m].name) \/ IsRelevant(entries[m].name)}

\* the position at which the file cap ends the root-level pass, which is
\* the file that brings the count over the cap; past the end if none does
CapPosition(n, counted) ==
    IF Cardinality(counted) > FILE_LIMIT
    THEN CHOOSE k \in counted :
             Cardinality({m \in counted : m <= k}) = FILE_LIMIT + 1
    ELSE n + 1

\* the position at which the time check ends the root-level pass
TimePosition(n, c) == Min({k \in 1..n : c * k > MAX_DIR_TIME} \cup {n + 1})

\* the entries that the root-level pass looks at
LookedAtRoot(n, c, capAt) == {k \in 1..n : c * k <= MAX_DIR_TIME /\ k <= capAt}

RootFinds(entries, looked) ==
    \E k \in looked :
        entries[k].kind = "file" /\ lower(suffix(entries[k].name)) = DotPy

\* the pass one level deeper is made
GoesDeeper(n, c, counted, capAt) ==
    /\ 2 * c * Min({TimePosition(n, c), capAt, n}) < MAX_DIR_TIME
    /\ Cardinality(counted \cap LookedAtRoot(n, c, capAt)) < DEEP_LIMIT

VisitedSubdir(e) ==
    e.kind = "dir" /\ ~startswith(e.name, <<".">>) /\ lower(e.name) \notin SKIP_DIRS

\* the files of the subdirectories among the first k entries
FilesBelow(entries, k) ==
    UNION {{<<j, m>> : m \in 1..Len(entries[j].entries)} :
              j \in {j \in 1..k : VisitedSubdir(entries[j])}}

IsDotPyBelow(entries, jm) ==
    /\ entries[jm[1]].entries[jm[2]].kind = "file"
    /\ suffix(entries[jm[1]].entries[jm[2]].name) = DotPy

\* the pass one level deeper, which starts at time t with py .py files
\* found, looks at the k-th entry
LookedAtDeeper(entries, c, t, py, k) ==
    /\ t + c * (k - 1) + c * Cardinality(FilesBelow(entries, k - 1)) + c
          <= MAX_DIR_TIME
    /\ \A j \in 1..(k - 1) :
          py + Cardinality({jm \in FilesBelow(entries, j) :
                               IsDotPyBelow(entries, jm)}) <= PY_LIMIT

DeeperRaises(entries, c, t, py) ==
    \E k \in 1..Len(entries) :
        /\ LookedAtDeeper(entries, c, t, py, k)
        /\ VisitedSubdir(entries[k])
        /\ entries[k].listFails

DeeperFinds(entries, c, t, py) ==
    \E k \in 1..Len(entries) :
        /\ LookedAtDeeper(entries, c, t, py, k)
        /\ VisitedSubdir(entries[k])
        /\ \E m \in 1..Len(entries[k].entries) : IsDotPyBelow(entries, <<k, m>>)

FindsWith(entries, n, c, counted, capAt) ==
    IF GoesDeeper(n, c, counted, capAt)
    THEN /\ ~DeeperRaises(entries, c, c * Min({TimePosition(n, c), capAt, n}), 0)
         /\ \/ RootFinds(entries, LookedAtRoot(n, c, capAt))
            \/ DeeperFinds(entries, c, c * Min({TimePosition(n, c), capAt, n}), 0)
    ELSE RootFinds(entries, LookedAtRoot(n, c, capAt))

FindsCounting(entries, c, counted) ==
    FindsWith(entries, Len(entries), c, counted,
              CapPosition(Len(entries), counted))

\* The directory item is scanned and a .py file is found in it: one at its
\* root, whatever the case of the suffix, that the pass looks at before
\* MAX_DIR_TIME or the FILE_LIMIT ends it; or, when the root-level pass
\* ends before half of MAX_DIR_TIME with fewer than DEEP_LIMIT files
\* counted, one with the suffix .py in a subdirectory that is not skipped
\* and that the pass looks at before MAX_DIR_TIME ends it, while no
\* listing raises.
Findable(item, c) ==
    /\ item.kind = "dir"
    /\ ~startswith(item.name, <<".">>)
    /\ lower(item.name) \notin SKIP_DIRS
    /\ ~item.listFails
    /\ FindsCounting(item.entries, c, CountedAtRoot(item.entries))

\* the walk came to the i-th child
Reached(i) == \E k \in 1..Len(log) : log[k].id = i

\* a file with the suffix .py at the root of item or one level down
HasDotPyNearby(item) ==
    \/ \E k \in 1..Len(item.entries) :
          item.entries[k].kind = "file" /\ suffix(item.entries[k].name) = DotPy
    \/ \E k \in 1..Len(item.entries) :
          /\ item.entries[k].kind = "dir"
          /\ \E j \in 1..Len(item.entries[k].entries) :
                /\ item.entries[k].entries[j].kind = "file"
                /\ suffix(item.entries[k].entries[j].name) = DotPy

\* C2 as it stands: with at most 50 children of the root, every child
\* directory with a .py file at its root or one level down appears exactly
\* once in the result.
C2_EveryProjectAppearsOnce ==
    (pc = "done" /\ NumChildren <= MAX_ITEMS) =>
        \A i \in Children :
            (Child(i).kind = "dir" /\ HasDotPyNearby(Child(i))) =>
                RecordCount(returned, i) = 1

\* C2, amended: with at most 50 children of the root, every child
\* directory that is not skipped by its name, that the walk comes to before
\* the budget of the scan is spent, in which the two bounded passes find a
\* .py file without a listing raising, and whose record is assembled
\* without a failure, appears exactly once in the result; no child appears
\* twice.
C2_EveryFoundProjectAppearsOnce ==
    (pc = "done" /\ NumChildren <= MAX_ITEMS) =>
        \A i \in Children :
            /\ RecordCount(returned, i) <= 1
            /\ (Reached(i) /\ ~FailedItself(i) /\ Findable(Child(i), fetchCost)) =>
                  RecordCount(returned, i) = 1

\* C2 happens: a directory whose only .py file is one level down is in the
\* result of a walk of a root with other children.
C2_Witness ==
    /\ pc = "done"
    /\ NumChildren <= MAX_ITEMS
    /\ NumChildren >= 2
    /\ \E i \in Children :
          /\ Child(i).kind = "dir"
          /\ Findable(Child(i), fetchCost)
          /\ ~RootFinds(Child(i).entries, 1..Len(Child(i).entries))
          /\ RecordCount(returned, i) = 1

\* The two ways of saying what the passes find agree.
FindableAgrees ==
    pc = "done" =>
        \A i \in Children :
            (Child(i).kind = "dir" /\ ~Skipped(Child(i).name)) =>
                (Findable(Child(i), fetchCost) <=>
                    (/\ ~Classify(Child(i), fetchCost).raised
                     /\ Classify(Child(i), fetchCost).py # <<>>))

(***************************************************************************)
(* Properties of the status detectors and of the helper functions, over   *)
(* the last call made.                                                     *)
(***************************************************************************)
\* C11: for every porcelain status output, the hasChanges that
\* get_git_status reports is hasStagedChanges OR hasUnstagedChanges, staged
\* meaning that some line has A, M, D, R or C in the first column and
\* unstaged that some line has M or D in the second or starts with "??".
C11_ChangesIsStagedOrUnstaged ==
    (utilOp = "get_git_status" /\ utilIn.hasGit /\ utilIn.hows.status = "exit0") =>
        /\ HasKey(utilOut, "hasChanges")
        /\ utilOut.hasChanges =
              \E i \in 1..Len(utilIn.lines) :
                  ColumnsStaged(utilIn.lines[i]) \/ ColumnsUnstaged(utilIn.lines[i])

\* C12: in get_git_status each of the four queries fails on its own,
\* whether by a non-zero exit, a timeout or an exception: a failed branch
\* query gives branch 'main', a failed status query hasChanges false, a
\* failed remote query hasRemote false, a failed log query lastCommit '';
\* the fields of the queries that succeeded are what those queries printed,
\* hasGit is true and nothing is raised.
C12_QueriesFailAlone ==
    (utilOp = "get_git_status" /\ utilIn.hasGit) =>
        /\ HasKey(utilOut, "hasGit")
        /\ utilOut.hasGit
        /\ utilOut.branch = IF utilIn.hows.branch = "exit0"
                            THEN <<"d", "e", "v">> ELSE <<"m", "a", "i", "n">>
        /\ utilOut.hasChanges =
              (utilIn.hows.status = "exit0" /\ utilIn.lines # <<>>)
        /\ utilOut.hasRemote = (utilIn.hows.remote = "exit0" /\ utilIn.remote)
        /\ utilOut.lastCommit = IF utilIn.hows.log = "exit0" THEN LogText
                                ELSE <<>>

\* A call in which every query but the branch query failed, each in its
\* own way, the status query with changes printed.
C12_Witness ==
    /\ utilOp = "get_git_status"
    /\ utilIn.hasGit
    /\ utilIn.hows = [branch |-> "exit0", status |-> "exit1",
                      remote |-> "timeout", log |-> "error"]
    /\ utilIn.lines # <<>>
    /\ utilIn.remote

\* C13: check_venv_status returns exists = true iff <project>/venv and
\* <project>/venv/bin/activate are both there, and active = true iff exists
\* is true and VIRTUAL_ENV is set and contains the absolute venv path; so
\* active implies exists, and a project without venv is reported with
\* exists false.
C13_VenvExistsAndActive ==
    utilOp = "check_venv_status" =>
        /\ utilOut.exists = (utilIn.venv = "full")
        /\ utilOut.active =
              (utilIn.venv = "full"
                 /\ utilIn.virtual \in {AppVenv, AppVenv \o <<"2", "/", "x">>})
        /\ utilOut.active => utilOut.exists
        /\ utilIn.venv = "none" => ~utilOut.exists

\* A venv directory without bin/activate while VIRTUAL_ENV names it.
C13_Witness ==
    /\ utilOp = "check_venv_status"
    /\ utilIn.venv = "bare"
    /\ utilIn.virtual = AppVenv
    /\ ~utilOut.exists

\* The whole days and the seconds left over between a timestamp and now.
WholeDays(in) == (in.now - in.timestamp) \div DAY
ResidualSeconds(in) == (in.now - in.timestamp) % DAY

\* C14: get_relative_time maps the time between a past timestamp and now
\* so: more than 7 whole days give a month and day; 1 to 7 whole days give
\* "N day(s) ago", "1 day ago" in the singular; otherwise residual seconds
\* above 3600 give "N hour(s) ago", above 60 "N minute(s) ago", else
\* "Just now".  3 days give "3 days ago", 1 day "1 day ago", 90 minutes
\* "1 hour ago", 10 days a month and day, and a failure gives "Unknown".
C14_RelativeTimeLabels ==
    utilOp = "get_relative_time" =>
        /\ utilIn.timestamp > MAX_TIMESTAMP => utilOut.text = "Unknown"
        /\ (utilIn.timestamp <= utilIn.now /\ WholeDays(utilIn) > 7) =>
              utilOut.text = "date"
        /\ (utilIn.timestamp <= utilIn.now /\ WholeDays(utilIn) \in 2..7) =>
              utilOut = [n |-> WholeDays(utilIn), text |-> "days ago"]
        /\ (utilIn.timestamp <= utilIn.now /\ WholeDays(utilIn) = 1) =>
              utilOut = [n |-> 1, text |-> "day ago"]
        /\ (utilIn.timestamp <= utilIn.now /\ WholeDays(utilIn) = 0) =>
              /\ ResidualSeconds(utilIn) >= 7200 =>
                    utilOut = [n |-> ResidualSeconds(utilIn) \div 3600,
                               text |-> "hours ago"]
              /\ ResidualSeconds(utilIn) \in 3601..7199 =>
                    utilOut = [n |-> 1, text |-> "hour ago"]
              /\ ResidualSeconds(utilIn) \in 120..3600 =>
                    utilOut = [n |-> ResidualSeconds(utilIn) \div 60,
                               text |-> "minutes ago"]
              /\ ResidualSeconds(utilIn) \in 61..119 =>
                    utilOut = [n |-> 1, text |-> "minute ago"]
              /\ ResidualSeconds(utilIn) <= 60 =>
                    utilOut = [n |-> 0, text |-> "Just now"]
        /\ utilIn.timestamp = utilIn.now - 3 * DAY =>
              utilOut = [n |-> 3, text |-> "days ago"]
        /\ utilIn.timestamp = utilIn.now - DAY =>
              utilOut = [n |-> 1, text |-> "day ago"]
        /\ utilIn.timestamp = utilIn.now - 90 * 60 =>
              utilOut = [n |-> 1, text |-> "hour ago"]
        /\ utilIn.timestamp = utilIn.now - 10 * DAY => utilOut.text = "date"

\* A timestamp of exactly seven days ago, which is still counted in days.
C14_Witness ==
    /\ utilOp = "get_relative_time"
    /\ utilIn.timestamp = utilIn.now - 7 * DAY
    /\ utilOut = [n |-> 7, text |-> "days ago"]

C19_ResultHasAllKeys ==
    (utilOp = "get_status" /\ utilIn.pathOk) =>
        /\ {"success", "stdout", "stderr", "returncode"}
              \subseteq DOMAIN utilOut.result
        /\ utilOut.result.success = (utilIn.how = "exit0")
        /\ ~HasKey(utilOut.returned, "raised")

\* The .env files whose credentials the claim calls working: regular
\* files that define both names and whose token the API answers with a
\* login field.
DefinesWorking(item) ==
    /\ item.kind = "file"
    /\ TokenName \in DOMAIN ParseLines(item.lines, 1, <<>>)
    /\ UsernameName \in DOMAIN ParseLines(item.lines, 1, <<>>)
    /\ ParseLines(item.lines, 1, <<>>)[TokenName] \in ValidTokens

WorkingAt(found) == {i \in 1..Len(found) : DefinesWorking(found[i])}

\* C20: find_working_github_credentials returns the credentials (token,
\* user name, email, name, source file) of the first .env file under the
\* projects directory that defines both GITHUB_TOKEN and GITHUB_USERNAME
\* and whose token is valid (the test call to the hosting API succeeds and
\* answers with a login field); it returns None only when no .env file has
\* such a token.
C20_FirstWorkingCredentials ==
    (utilOp = "find_working_github_credentials" /\ utilIn.dirExists
       /\ utilIn.how = "exit0") =>
        IF WorkingAt(utilIn.found) = {}
        THEN utilOut = None
        ELSE /\ HasKey(utilOut, "source_file")
             /\ utilOut.source_file = Min(WorkingAt(utilIn.found))
             /\ utilOut.GITHUB_TOKEN \in ValidTokens

\* The names that the claim calls skipped: they start with a dot or are
\* an entry of the skip-set when case is ignored.
NamedInSkipSet(name) ==
    startswith(name, <<".">>) \/ \E entry \in SKIP_DIRS : lower(name) = lower(entry)

ClaimedRelevant(name) ==
    /\ lower(suffix(name)) # DotPy
    /\ \/ lower(suffix(name)) \in RELEVANT_EXTENSIONS
       \/ \E imp \in IMPORTANT_FILES :
             lower(name) = lower(imp) \/ contains(lower(name), lower(imp))

\* C18: at the root level of a project a file that is no .py file counts
\* as relevant iff its extension is in the fixed set, or its name is one of
\* the important file names when case is ignored, or contains one; this for
\* every important file name of the table; and no file counts both as
\* primary and as relevant.
C18_RelevantByTable ==
    utilOp = "classify_file" =>
        /\ utilOut.rel = IF ClaimedRelevant(utilIn.name) THEN 1 ELSE 0
        /\ Len(utilOut.py) + utilOut.rel <= 1

(***************************************************************************)
(* Properties of two calls of scan_projects in a row.                     *)
(***************************************************************************)
\* a record without its recency label
Unlabelled(record) == [record EXCEPT !.lastModified = Unknown]

SameButLabel(a, b) ==
    /\ Len(a) = Len(b)
    /\ \A i \in 1..Len(a) : Unlabelled(a[i]) = Unlabelled(b[i])

\* The children whose stat() raised while their record was assembled; in
\* an unchanged tree they are the same in both calls.
StatFailed(history) == {history[i].id : i \in {j \in 1..Len(history) : history[j].fails}}

\* The second call has returned, both calls within MAX_SCAN_TIME, on a
\* tree that was the same for both.
BothWithinBudget ==
    /\ scanNo = 2
    /\ pc = "done"
    /\ first.elapsed <= MAX_SCAN_TIME
    /\ elapsed <= MAX_SCAN_TIME
    /\ StatFailed(first.log) = StatFailed(log)

\* No directory that a call looked into took it to one of the limits per
\* directory: the root-level pass took less than MAX_DIR_TIME/2 and the two
\* passes together no more than MAX_DIR_TIME.
Unhurried(history, c) ==
    \A i \in 1..Len(history) :
        (Child(history[i].id).kind = "dir"
           /\ ~Skipped(Child(history[i].id).name)
           /\ ~Child(history[i].id).listFails) =>
            /\ 2 * RootPass(Child(history[i].id).entries, c).t < MAX_DIR_TIME
            /\ Classify(Child(history[i].id), c).t <= MAX_DIR_TIME

AddedBelow == Len(utilOut.both.py) - Len(utilOut.root.py)

\* C21: the pass one level deeper adds at most 50 .py files to those found
\* at root level, whatever the number of root-level .py files.
C21_DeeperAddsAtMostFifty ==
    utilOp = "classify_counted" => AddedBelow <= 50

\* the files directly in the two subdirectories whose name ends in .py in
\* any letter case
PrimaryBelow == IF lower(utilIn.ext) = DotPy THEN utilIn.sub1 + utilIn.sub2 ELSE 0

\* the pass one level deeper has read both subdirectories to their end
ReadBothToEnd ==
    /\ 2 * utilOut.root.t < MAX_DIR_TIME
    /\ Len(utilOut.root.py) + utilOut.root.rel < 20
    /\ utilIn.c = 0
    /\ Len(utilOut.root.py) + utilIn.sub1 + utilIn.sub2 <= 50

\* C22 (first part): files below root level are counted only when the
\* root-level pass ended in under 1.5 seconds with fewer than 20 files.
C22_DeeperOnlyWhenAllowed ==
    (utilOp = "classify_counted" /\ AddedBelow > 0)
        => /\ 2 * utilOut.root.t < MAX_DIR_TIME
           /\ Len(utilOut.root.py) + utilOut.root.rel < 20

\* C22 (second part): no file more than one level down is counted.
C22_OneLevelOnly ==
    utilOp = "classify_counted" => AddedBelow <= utilIn.sub1 + utilIn.sub2

\* C22: subdirectories are looked into only when the root-level pass ended
\* in under half of the 3 seconds with fewer than 20 files, no file more
\* than one level down is read, and a file in a subdirectory counts as
\* primary when its name ends in .py in any letter case.
C22_DeeperPassRules ==
    /\ C22_DeeperOnlyWhenAllowed
    /\ C22_OneLevelOnly
    /\ (utilOp = "classify_counted" /\ ReadBothToEnd) => AddedBelow = PrimaryBelow

(***************************************************************************)
(* C24: the retry protocol of push_changes.                                *)
(***************************************************************************)
\* the push of that kind failed for want of credentials
FailedAuthentication(kind) == kind \in {"username", "authentication"}

\* origin is at github.com and its URL holds no credentials yet
RewritableOrigin(in) ==
    /\ in.remoteHow = "exit0"
    /\ in.url \in {<<"h","t","t","p","s",":","/","/","g","i","t","h","u","b",".","c","o","m","/","m","e","/","a","p","p",".","g","i","t">>,
                   <<"g","i","t","@","g","i","t","h","u","b",".","c","o","m",":","m","e","/","a","p","p",".","g","i","t">>}

\* the kinds of the pushes made, in their order
PushesMade(in, out) ==
    <<in.first>>
        \o (IF "git remote set-url origin" \in Range(out.cmds) THEN <<in.retry>> ELSE <<>>)
        \o (IF "git push --set-upstream origin main" \in Range(out.cmds)
            THEN <<in.upstream>> ELSE <<>>)

\* C24: push_changes pushes first; it rewrites origin and pushes again
\* only after a failed authentication with a github.com origin that holds
\* no credentials; it pushes with --set-upstream only after the latest
\* push failed for want of an upstream branch; it pushes at most three
\* times, rewrites nothing after a first push that succeeded, and returns
\* the success of the last push made.
C24_PushRetryProtocol ==
    utilOp = "push_changes" =>
        /\ Head(utilOut.cmds) = "git push"
        /\ "git remote set-url origin" \in Range(utilOut.cmds) =>
               /\ FailedAuthentication(utilIn.first)
               /\ RewritableOrigin(utilIn)
               /\ SubSeq(utilOut.cmds, 1, 4) =
                      <<"git push", "git remote get-url origin",
                        "git remote set-url origin", "git push">>
        /\ utilOut.url # utilIn.url => "git remote set-url origin" \in Range(utilOut.cmds)
        /\ "git push --set-upstream origin main" \in Range(utilOut.cmds) =>
               /\ utilOut.cmds[Len(utilOut.cmds)] = "git push --set-upstream origin main"
               /\ PushesMade(utilIn, utilOut)[Len(utilOut.pushes) - 1] = "upstream"
        /\ Len(utilOut.pushes) <= 3
        /\ Len(utilOut.pushes) = Len(PushesMade(utilIn, utilOut))
        /\ utilIn.first = "ok" =>
               (utilOut.cmds = <<"git push">> /\ utilOut.url = utilIn.url)
        /\ utilOut.returned.success =
               (PushesMade(utilIn, utilOut)[Len(utilOut.pushes)] = "ok")

\* three pushes: no credentials, then no upstream branch, then success
C24_Witness ==
    /\ utilOp = "push_changes"
    /\ utilIn.first = "authentication"
    /\ utilIn.retry = "upstream"
    /\ utilIn.upstream = "ok"
    /\ Len(utilOut.pushes) = 3
    /\ utilOut.url # utilIn.url
    /\ utilOut.returned.success

(***************************************************************************)
(* C25: fix_repository.                                                    *)
(***************************************************************************)
\* the call returned a result that says success
Succeeded(out) == HasKey(out.returned, "success") /\ out.returned.success

\* the position of a command among those run, 0 if it was not run
PositionOf(cmds, cmd) ==
    IF cmd \in Range(cmds) THEN Min({i \in 1..Len(cmds) : cmds[i] = cmd}) ELSE 0

\* one of the steps that fix_repository takes failed
StepFailed(in, out) ==
    \/ "git commit" \in Range(out.cmds) /\ in.commit # "exit0"
    \/ "git remote -v" \in Range(out.cmds) /\ in.remote = "timeout"
    \/ "git push --set-upstream origin main" \in Range(out.cmds) /\ in.push # "ok"

\* C25: fix_repository makes the initial commit before it looks at the
\* remote; when it returns success the repository has a commit and a
\* remote and the push with --set-upstream succeeded; a failed step gives
\* success false.
C25_FixedMeansPushed ==
    utilOp = "fix_repository" =>
        /\ "git commit" \in Range(utilOut.cmds) /\ "git remote -v" \in Range(utilOut.cmds)
               => PositionOf(utilOut.cmds, "git commit") < PositionOf(utilOut.cmds, "git remote -v")
        /\ Succeeded(utilOut) =>
               (utilOut.commits /\ utilOut.remote /\ utilOut.pushed)
        /\ StepFailed(utilIn, utilOut) =>
               (HasKey(utilOut.returned, "success") /\ ~utilOut.returned.success)

(***************************************************************************)
(* C26: handle_action with a path that is not valid, or with an action    *)
(* that it does not know.                                                  *)
(***************************************************************************)
\* C26: each of the eight actions, called with a project path that is
\* empty or does not exist, returns 'Invalid project path' and runs no
\* command; any other action name returns 'Unknown action' and runs no
\* command.
C26_InvalidPathRunsNothing ==
    utilOp = "handle_action" =>
        /\ (utilIn.action \in Actions /\ ~utilIn.env.pathOk) =>
               /\ utilOut.returned = [success |-> FALSE, error |-> "Invalid project path"]
               /\ utilOut.cmds = <<>>
        /\ utilIn.action \notin Actions =>
               /\ utilOut.returned = [success |-> FALSE, error |-> "Unknown action"]
               /\ utilOut.cmds = <<>>

(***************************************************************************)
(* C30: the label of get_relative_time against the time that has passed.  *)
(***************************************************************************)
\* the seconds that the unit of a label stands for, 0 for a label
\* without a number
UnitOf(text) ==
    CASE text \in {"days ago", "day ago"} -> DAY
      [] text \in {"hours ago", "hour ago"} -> 3600
      [] text \in {"minutes ago", "minute ago"} -> 60
      [] OTHER -> 0

\* C30: the N of "N days/hours/minutes ago" is at most the time between
\* the timestamp and now in that unit, and a timestamp that is not
\* earlier than now is labelled "Just now".
C30_NeverMoreThanElapsed ==
    (utilOp = "get_relative_time" /\ utilIn.timestamp <= MAX_TIMESTAMP) =>
        /\ utilOut.n * UnitOf(utilOut.text) <= Max({0, utilIn.now - utilIn.timestamp})
        /\ utilIn.timestamp >= utilIn.now => utilOut.text = "Just now"

(***************************************************************************)
(* C23: what a scan writes.                                                *)
(***************************************************************************)
\* the scan root and what is in it
TreeVars == <<rootState, kids, filler, fillerFirst>>

\* the root is created with sample_project, and main.py in it, as its
\* only child
SeedsSample ==
    /\ rootState' = "present"
    /\ kids' = <<[t |-> "sample_project", age |-> 0]>>
    /\ filler' = 0
    /\ Len(Tree("sample_project").entries) = 1
    /\ Tree("sample_project").entries[1].kind = "file"
    /\ Tree("sample_project").entries[1].name = <<"m","a","i","n",".","p","y">>

\* C23: a scan writes only when the root does not exist at its start, and
\* then creates the root with sample_project/main.py as its only content,
\* which never makes the scan fail; a root that exists, even empty, is
\* left as it is.
C23_WritesOnlySeed ==
    [][/\ TreeVars' # TreeVars =>
             (pc = "start" /\ rootState \in {"missing", "uncreatable"} /\ SeedsSample)
       /\ (pc = "start" /\ rootState \in {"missing", "uncreatable"}) =>
             (pc' # "raised" /\ SeedsSample)]_vars

\* C27: when save_data fails and returns False, the snapshot file holds what
\* it held before the call: a following load_data returns what it would
\* have returned before the call, not the defaults.
C27_FailedSaveKeepsFile ==
    (dataOp = "save_data" /\ saveReturned = "False") =>
        LoadedFrom(dataFile, defaults) = LoadedFrom(fileBefore, defaults)

\* C28: whatever the callers did to the documents they were handed, a
\* load_data gives, for every key the file does not hold, exactly the
\* original default: the two example snippets, no sessions, no projects.
C28_DefaultsAreFixed ==
    dataOp = "load_data" =>
        \A key \in DOMAIN DEFAULT_DATA :
            (dataFile.kind # "object" \/ key \notin DOMAIN dataFile.doc) =>
                held.doc[key] = DEFAULT_DATA[key]

\* C29: snippets and sessions stored by a save-data request that was served
\* while a scan-projects request stood between its load_data and its
\* save_data are in the snapshot file when both requests have finished.
C29_PostedSurvivesScan ==
    (scanPc = "done" /\ posted # None /\ posted.between /\ posted.stored) =>
        /\ dataFile.kind = "object"
        /\ dataFile.doc.snippets = posted.doc.snippets
        /\ dataFile.doc.sessions = posted.doc.sessions

====
